---- MODULE Spec2Model ----
(***************************************************************************)
(* Actor / capability lifecycle of the wasmCloud kubelet provider           *)
(* (crates/wasmcloud-provider/src/lib.rs): wasmcloud_run, ActorHandle::stop *)
(* and ProviderState::stop, run by one task per pod against the shared      *)
(* Host behind its mutex.  Every Host call is an await point of the task    *)
(* and is fallible: it either succeeds with its effect on the Host or       *)
(* fails and leaves the Host as it was.                                     *)
(* Beside it: the handle table of the waSCC provider                        *)
(* (crates/wascc-provider/src/lib.rs: add, delete, logs), the log reader    *)
(* factory with the logging provider that writes the log files              *)
(* (crates/wasmcloud-logging/src/lib.rs), and the port allocator.           *)
(***************************************************************************)
EXTENDS Integers, Sequences, FiniteSets, TLC

\* ------------------------------------------------------------------ bounds
\* Number of pods (workload keys), each with its own task.
NumPods == 2
\* Sequential specification: tasks that act, longest declared capability
\* list, longest volume list, stops of a registered handle per task.
SeqTasks == 1
MaxDeclared == 3
MaxVolumes == 2
MaxStops == 2
\* Concurrent specification: the same, for NumPods tasks.
ConcMaxDeclared == 2
ConcMaxVolumes == 1
ConcMaxStops == 1
\* Number of runs each pod's task makes.
MaxRuns == 1
\* Log records a log file holds at most; readers made of one log file.
MaxLog == 2
MaxReaders == 2
\* Ports of the range the allocator picks from.
NumPorts == 2
\* Calls the Host makes to the logging provider's handle_call.
MaxCalls == 4

\* --------------------------------------------------------------- constants
FS_CAPABILITY == "wasmcloud:blobstore"
HTTP_CAPABILITY == "wasmcloud:httpserver"
LOG_CAPABILITY == "wasmcloud:logging"

\* Option::None of a link's or provider's binding name.
NoBinding == "None"
\* No task holds the lock.
NoTask == 0
\* No port reserved / no PORT configured.
NoPort == 0
\* No entry in the handle table / nothing returned yet.
NoHandle == [key |-> "none"]
\* Bytes that Actor::from_slice rejects.
InvalidData == [valid |-> FALSE]

Pods == 1..NumPods
Ports == 1..NumPorts
\* A capability the provider does not manage (the `_` arm of stop).
OTHER_CAPABILITY == "wasmcloud:messaging"
ManagedNames == {LOG_CAPABILITY, HTTP_CAPABILITY, FS_CAPABILITY}
CapabilityNames == ManagedNames \cup {OTHER_CAPABILITY}
VolumeNames == {"data", "cache"}

\* Duplicate-free sequences over S of length at most n.
SeqsUpTo(S, n) ==
  UNION {{s \in [1..k -> S] : \A a, b \in 1..k : a # b => s[a] # s[b]} : k \in 0..n}

Range(s) == {s[k] : k \in 1..Len(s)}

\* Signed modules: the claims carry the declared capability list, in the
\* order of the declaration; the public key is unique to the module.
Modules(names, n) == {[valid |-> TRUE, caps |-> c] : c \in SeqsUpTo(names, n)}
ModuleData == Modules(CapabilityNames, MaxDeclared) \cup {InvalidData}
ConcModuleData == Modules(ManagedNames, ConcMaxDeclared) \cup {InvalidData}

\* Actor::public_key.
public_key(load) == <<"M">> \o load.caps
\* Actor::capabilities.
actor_capabilities(load) == load.caps

\* struct VolumeBinding; the pod's volume map has one entry per name.
VolumeBinding(n) == [name |-> n, host_path |-> <<"volumes", n>>]
Volumes(n) ==
  {[k \in 1..Len(s) |-> VolumeBinding(s[k])] : s \in SeqsUpTo(VolumeNames, n)}
VolumeLists == Volumes(MaxVolumes)
ConcVolumeLists == Volumes(ConcMaxVolumes)

VARIABLES
  hostActors,     \* Host: public keys of the started actors
  hostProviders,  \* Host: running capability providers, [cap, binding]
  hostLinks,      \* Host: links, [actor, cap, binding]
  hostLock,       \* Arc<Mutex<Host>>: the task holding it, or NoTask
  handles,        \* ProviderState.handles: pod -> ActorHandle or NoHandle
  tableLock,      \* the writer of ProviderState.handles, or NoTask
  pc,             \* each task's position
  data,           \* wasmcloud_run: the module of the task's run
  volumes,        \* wasmcloud_run: volumes; ActorHandle::stop: the drained list
  capabilities,   \* wasmcloud_run: the Capability vector built so far
  idx,            \* position in the loop the task is in
  vidx,           \* ActorHandle::stop: position in the volume loop
  ret,            \* what the task's last run returned: a handle, or NoHandle
  result,         \* outcome of the task's last operation
  runs,           \* how many runs the task has begun
  stops,          \* how many stops of its handle the task has begun
  trace,          \* Host calls the task issued in its current/last operation
  wasccActors,    \* waSCC host: public keys of the added actors
  wasccLinks,     \* waSCC host: configured capabilities, [actor, cap]
  wasccHandles,   \* WasccProvider.handles: pod -> handle or NoHandle
  wasccPc,        \* WasccProvider::add: position of the pod's task
  wasccRet,       \* WasccProvider::add: the handle wascc_run returned
  wasccResult,    \* outcome of the pod's last add or delete
  wasccLogsResult,\* outcome of the last WasccProvider::logs for the pod
  wasccLast,      \* the pod's last add or delete: [op, stop, handle]
  logsPc,         \* WasmCloudProvider::logs for the pod's key: its position
  logsResult,     \* outcome of the last WasmCloudProvider::logs for the pod
  logFile,        \* content of the temp log file of the pod's run
  written,        \* records the logging provider wrote through the loggers of that file
  output_map,     \* LoggingProvider.output_map: [module, file, pos] per actor
  readers,        \* per pod: the files new_handle returned, [pos, out]
  port_map,       \* ProviderState.port_map: port -> the pod it is reserved for
  port,           \* the port reserved for the pod's run (port_assigned), or NoPort
  httpPort,       \* PORT of the HTTP descriptor of the pod's run, or NoPort
  stoppedOk,      \* a stop of the pod's registered handle has returned Ok
  env,            \* wasmcloud_run: the declared environment of the pod's run
  capEnv,         \* wasmcloud_run: the env of each entry of the Capability vector
  linkEnv,        \* Host: per link, the env it was set with and the inputs of that run
  lastBind,       \* per actor: the file of the latest bind sent to the logging provider
  nodeSelector,   \* the node selector of the pod given to can_schedule
  schedulable,    \* what can_schedule returned for the pod
  lastCall,       \* LoggingProvider::handle_call: the last call, [n, actor, op, result]
  unbound         \* actors for which the provider accepted a remove-actor call

logVars == <<logsPc, logsResult, logFile, written, output_map, readers>>
portVars == <<port_map, port, httpPort, stoppedOk>>
envVars == <<env, capEnv, linkEnv>>
schedVars == <<nodeSelector, schedulable>>
\* The state beside runs, stops, tables, log files and ports.
callVars == <<lastCall, unbound>>
restVars == <<envVars, lastBind, schedVars, callVars>>

wasccVars == <<wasccActors, wasccLinks, wasccHandles, wasccPc, wasccRet, wasccResult,
               wasccLogsResult, wasccLast>>

\* The state of the wasmCloud provider's runs and stops.
podVars == <<hostActors, hostProviders, hostLinks, hostLock, handles, tableLock,
             pc, data, volumes, capabilities, idx, vidx, ret, result, runs, stops, trace>>

vars == <<podVars, wasccVars, logVars, portVars, restVars>>

hostVars == <<hostActors, hostProviders, hostLinks>>
localVars == <<data, volumes, capabilities, idx, vidx>>

\* A Host call as the trace records it.
Call(op, actor, cap, binding, ok) ==
  [op |-> op, actor |-> actor, cap |-> cap, binding |-> binding, ok |-> ok]

\* struct Capability (name, binding); the provider id is fixed per name.
Capability(name, binding) == [name |-> name, binding |-> binding]

\* A construction that started the HTTP provider only.
StartupProvidersHttpOnly ==
  {[cap |-> HTTP_CAPABILITY, binding |-> NoBinding]}

\* A construction that also started a blob-storage provider with no binding.
StartupProvidersAllThree ==
  {[cap |-> HTTP_CAPABILITY, binding |-> NoBinding],
   [cap |-> LOG_CAPABILITY, binding |-> NoBinding],
   [cap |-> FS_CAPABILITY, binding |-> NoBinding]}

\* WasmCloudProvider::new: the providers started at construction.
StartupProviders ==
  {[cap |-> HTTP_CAPABILITY, binding |-> NoBinding],
   [cap |-> LOG_CAPABILITY, binding |-> NoBinding]}

Init ==
  /\ hostActors = {}
  /\ hostProviders = StartupProviders
  /\ hostLinks = {}
  /\ hostLock = NoTask
  /\ handles = [p \in Pods |-> NoHandle]
  /\ tableLock = NoTask
  /\ pc = [p \in Pods |-> "idle"]
  /\ data = [p \in Pods |-> InvalidData]
  /\ volumes = [p \in Pods |-> <<>>]
  /\ capabilities = [p \in Pods |-> <<>>]
  /\ idx = [p \in Pods |-> 1]
  /\ vidx = [p \in Pods |-> 1]
  /\ ret = [p \in Pods |-> NoHandle]
  /\ result = [p \in Pods |-> "none"]
  /\ runs = [p \in Pods |-> 0]
  /\ stops = [p \in Pods |-> 0]
  /\ trace = [p \in Pods |-> <<>>]
  /\ wasccActors = {}
  /\ wasccLinks = {}
  /\ wasccHandles = [p \in Pods |-> NoHandle]
  /\ wasccPc = [p \in Pods |-> "idle"]
  /\ wasccRet = [p \in Pods |-> NoHandle]
  /\ wasccResult = [p \in Pods |-> "none"]
  /\ wasccLogsResult = [p \in Pods |-> "none"]
  /\ wasccLast = [p \in Pods |-> [op |-> "none", stop |-> "none", handle |-> NoHandle]]
  /\ logsPc = [p \in Pods |-> "idle"]
  /\ logsResult = [p \in Pods |-> "none"]
  /\ logFile = [p \in Pods |-> <<>>]
  /\ written = [p \in Pods |-> <<>>]
  /\ output_map = {}
  /\ readers = [p \in Pods |-> <<>>]
  /\ port_map = [n \in Ports |-> NoTask]
  /\ port = [p \in Pods |-> NoPort]
  /\ httpPort = [p \in Pods |-> NoPort]
  /\ stoppedOk = [p \in Pods |-> FALSE]
  /\ env = [p \in Pods |-> {}]
  /\ capEnv = [p \in Pods |-> <<>>]
  /\ linkEnv = {}
  /\ lastBind = {}
  /\ nodeSelector = [p \in Pods |-> {}]
  /\ schedulable = [p \in Pods |-> {}]
  /\ lastCall = [n |-> 0, actor |-> <<>>, op |-> "none", result |-> "none"]
  /\ unbound = {}

\* ----------------------------------------------------------- wasmcloud_run
\* A vector that gets the HTTP descriptor whatever the actor declares.
StaticCapabilitiesAlwaysHttp(actor_caps) ==
  (IF LOG_CAPABILITY \in Range(actor_caps)
     THEN <<[name |-> LOG_CAPABILITY, binding |-> NoBinding]>> ELSE <<>>)
  \o <<[name |-> HTTP_CAPABILITY, binding |-> NoBinding]>>

\* A vector built with the HTTP descriptor pushed before the logging one.
StaticCapabilitiesHttpFirst(actor_caps) ==
  (IF HTTP_CAPABILITY \in Range(actor_caps)
     THEN <<[name |-> HTTP_CAPABILITY, binding |-> NoBinding]>> ELSE <<>>)
  \o (IF LOG_CAPABILITY \in Range(actor_caps)
        THEN <<[name |-> LOG_CAPABILITY, binding |-> NoBinding]>> ELSE <<>>)

\* The Capability vector before the Host is locked: logging, then HTTP, each
\* if the actor declares it.
StaticCapabilities(actor_caps) ==
  (IF LOG_CAPABILITY \in Range(actor_caps)
     THEN <<Capability(LOG_CAPABILITY, NoBinding)>> ELSE <<>>)
  \o (IF HTTP_CAPABILITY \in Range(actor_caps)
        THEN <<Capability(HTTP_CAPABILITY, NoBinding)>> ELSE <<>>)

\* The managed names of a list in link precedence: logging, HTTP, blob storage.
InPrecedence(names) ==
  SelectSeq(<<LOG_CAPABILITY, HTTP_CAPABILITY, FS_CAPABILITY>>, LAMBDA c : c \in names)

\* A handle listing the linkable capabilities in link precedence.
NewActorHandleInPrecedence(pk, vols, actor_caps) ==
  [key |-> pk, volumes |-> vols,
   capabilities |-> InPrecedence(
      {c \in Range(actor_caps) : c = FS_CAPABILITY => vols # <<>>})]

\* The ActorHandle of a successful run.
NewActorHandle(pk, vols, actor_caps) ==
  [key |-> pk, volumes |-> vols, capabilities |-> actor_caps]

\* An RwLock whose write() returns at once, held or not.
RwLockFreeAlways(holder) == TRUE

\* RwLock::write().await returns only when no task holds the lock.
RwLockFree(holder) == holder = NoTask

\* A mutex whose lock() returns at once, held or not.
MutexFreeAlways(holder) == TRUE

\* Mutex::lock().await returns when no task holds the guard.
MutexFree(holder) == holder = NoTask

\* A run whose guard of the Host lock outlives the block and the return.
GuardAfterBlockHeld(p) == p

\* The holder of the Host lock when the block of `let lock` has ended: the
\* guard is dropped there, before the handle is built and returned.
GuardAfterBlock(p) == NoTask

\* A run returning an error: the guard of the Host lock is dropped.
RunFail(p) ==
  /\ pc' = [pc EXCEPT ![p] = "idle"]
  /\ result' = [result EXCEPT ![p] = "err"]
  /\ ret' = [ret EXCEPT ![p] = NoHandle]
  /\ hostLock' = NoTask

\* A run returning Ok(ContainerHandle): the lock guard goes out of scope and
\* the handle is built.
RunOk(p) ==
  /\ pc' = [pc EXCEPT ![p] = "run_ok"]
  /\ result' = [result EXCEPT ![p] = "ok"]
  /\ ret' = [ret EXCEPT ![p] =
               NewActorHandle(public_key(data[p]), volumes[p],
                              actor_capabilities(data[p]))]
  /\ hostLock' = GuardAfterBlock(p)

\* A run that answers unloadable bytes with Ok.
LoadFailSwallowed(p) ==
  /\ capabilities' = [capabilities EXCEPT ![p] = <<>>]
  /\ pc' = [pc EXCEPT ![p] = "idle"]
  /\ result' = [result EXCEPT ![p] = "ok"]

\* The `?` on NamedTempFile::new_in and on Actor::from_slice: the run returns
\* the error before host.lock().
LoadFail(p) ==
  /\ capabilities' = [capabilities EXCEPT ![p] = <<>>]
  /\ pc' = [pc EXCEPT ![p] = "idle"]
  /\ result' = [result EXCEPT ![p] = "err"]

\* Entry of wasmcloud_run up to host.lock().await: temp file, module load,
\* logging and HTTP descriptors.
RunStart(p, D, V) ==
  /\ pc[p] = "idle"
  /\ handles[p] = NoHandle
  /\ runs[p] < MaxRuns
  /\ runs' = [runs EXCEPT ![p] = @ + 1]
  /\ \E d \in D, vols \in V, tempOk \in BOOLEAN :
       /\ data' = [data EXCEPT ![p] = d]
       /\ volumes' = [volumes EXCEPT ![p] = vols]
       /\ trace' = [trace EXCEPT ![p] = <<>>]
       /\ idx' = [idx EXCEPT ![p] = 1]
       /\ vidx' = [vidx EXCEPT ![p] = 1]
       /\ ret' = [ret EXCEPT ![p] = NoHandle]
       /\ IF tempOk /\ d # InvalidData
            THEN /\ capabilities' =
                      [capabilities EXCEPT ![p] = StaticCapabilities(actor_capabilities(d))]
                 /\ pc' = [pc EXCEPT ![p] = "run_lock"]
                 /\ result' = [result EXCEPT ![p] = "none"]
            ELSE LoadFail(p)
  /\ UNCHANGED <<hostVars, hostLock, handles, tableLock, stops>>

\* let lock = host.lock().await
RunLock(p) ==
  /\ pc[p] = "run_lock"
  /\ MutexFree(hostLock)
  /\ hostLock' = p
  /\ pc' = [pc EXCEPT ![p] =
              IF FS_CAPABILITY \in Range(actor_capabilities(data[p])) /\ volumes[p] # <<>>
                THEN "run_provision" ELSE "run_start_actor"]
  /\ UNCHANGED <<hostVars, handles, tableLock, localVars, ret, result, runs, stops, trace>>

\* A run that only logs a provider's failure to start and goes on.
GoesOnAfterProvisionAlways(ok) == TRUE

\* The `?` on start_native_capability: the loop goes on only if the call
\* returned Ok.
GoesOnAfterProvision(ok) == ok

\* One turn of the volume loop: NativeCapability::from_instance, then
\* lock.start_native_capability(fs_capability).await, then the descriptor.
RunProvision(p) ==
  /\ pc[p] = "run_provision"
  /\ hostLock = p
  /\ LET vol == volumes[p][idx[p]]
         pk == public_key(data[p])
     IN \E instOk \in BOOLEAN, ok \in BOOLEAN :
          IF ~instOk
            THEN /\ RunFail(p)
                 /\ UNCHANGED <<hostVars, localVars, trace>>
            ELSE /\ trace' = [trace EXCEPT ![p] =
                       Append(@, Call("start_provider", pk, FS_CAPABILITY, vol.name, ok))]
                 /\ IF GoesOnAfterProvision(ok)
                      THEN /\ hostProviders' =
                                 IF ok THEN hostProviders \cup
                                              {[cap |-> FS_CAPABILITY, binding |-> vol.name]}
                                 ELSE hostProviders
                           /\ capabilities' = [capabilities EXCEPT ![p] =
                                 Append(@, Capability(FS_CAPABILITY, vol.name))]
                           /\ IF idx[p] < Len(volumes[p])
                                THEN /\ idx' = [idx EXCEPT ![p] = @ + 1]
                                     /\ pc' = pc
                                ELSE /\ idx' = [idx EXCEPT ![p] = 1]
                                     /\ pc' = [pc EXCEPT ![p] = "run_start_actor"]
                           /\ UNCHANGED <<hostActors, hostLinks, hostLock, data, volumes,
                                          vidx, ret, result>>
                      ELSE /\ RunFail(p)
                           /\ UNCHANGED <<hostVars, localVars>>
  /\ UNCHANGED <<handles, tableLock, runs, stops>>

\* A run that went on to its links whatever start_actor returned.
GoesOnAfterStartActorAlways(ok) == TRUE

\* The `?` on start_actor: the run goes on only if the call returned Ok.
GoesOnAfterStartActor(ok) == ok

\* lock.start_actor(load).await?
RunStartActor(p) ==
  /\ pc[p] = "run_start_actor"
  /\ hostLock = p
  /\ LET pk == public_key(data[p])
     IN \E ok \in BOOLEAN :
          /\ trace' = [trace EXCEPT ![p] =
                 Append(@, Call("start_actor", pk, "", NoBinding, ok))]
          /\ hostActors' = IF ok THEN hostActors \cup {pk} ELSE hostActors
          /\ IF GoesOnAfterStartActor(ok)
               THEN IF capabilities[p] = <<>>
                      THEN RunOk(p)
                      ELSE /\ pc' = [pc EXCEPT ![p] = "run_set_link"]
                           /\ UNCHANGED <<hostLock, ret, result>>
               ELSE RunFail(p)
  /\ idx' = [idx EXCEPT ![p] = 1]
  /\ UNCHANGED <<hostProviders, hostLinks, handles, tableLock, data, volumes,
                 capabilities, vidx, runs, stops>>

\* The Host's links of one actor.
LinksOf(pk) == {l \in hostLinks : l.actor = pk}

\* A run that unwound on a set_link error would leave this.
HostAfterLinkErrorUnwound(pk) ==
  [actors |-> hostActors \ {pk}, links |-> hostLinks \ LinksOf(pk)]

\* The `?` on set_link's error returns at once: the actor stays started and
\* the links made so far stay in place.
HostAfterLinkError(pk) ==
  [actors |-> hostActors, links |-> hostLinks]

\* One turn of `for cap in capabilities`: lock.set_link(..).await?
RunSetLink(p) ==
  /\ pc[p] = "run_set_link"
  /\ hostLock = p
  /\ LET cap == capabilities[p][idx[p]]
         pk == public_key(data[p])
     IN \E ok \in BOOLEAN :
          /\ trace' = [trace EXCEPT ![p] =
                 Append(@, Call("set_link", pk, cap.name, cap.binding, ok))]
          /\ IF ok
               THEN /\ hostLinks' = hostLinks \cup
                          {[actor |-> pk, cap |-> cap.name, binding |-> cap.binding]}
                    /\ hostActors' = hostActors
                    /\ IF idx[p] < Len(capabilities[p])
                         THEN /\ idx' = [idx EXCEPT ![p] = @ + 1]
                              /\ UNCHANGED <<pc, hostLock, ret, result>>
                         ELSE /\ idx' = idx
                              /\ RunOk(p)
               ELSE /\ RunFail(p)
                    /\ hostActors' = HostAfterLinkError(pk).actors
                    /\ hostLinks' = HostAfterLinkError(pk).links
                    /\ idx' = idx
  /\ UNCHANGED <<hostProviders, handles, tableLock, data, volumes,
                 capabilities, vidx, runs, stops>>

\* Registration of the returned handle in ProviderState.handles under the
\* table's write lock, by the caller of wasmcloud_run.
Register(p) ==
  /\ pc[p] = "run_ok"
  /\ tableLock = NoTask
  /\ handles' = [handles EXCEPT ![p] = ret[p]]
  /\ pc' = [pc EXCEPT ![p] = "running"]
  /\ UNCHANGED <<hostVars, hostLock, tableLock, localVars, ret, result, runs, stops,
                 trace>>

\* ------------------------------------------- ProviderState::stop, ActorHandle::stop
\* A stop whose match had no HTTP_CAPABILITY arm.
IssuesCallNoHttpArm(caps, vols, i) ==
  \/ caps[i] = LOG_CAPABILITY
  \/ caps[i] = FS_CAPABILITY /\ vols # <<>>

\* Does `for cap in self.capabilities` issue a Host call for entry i ?
IssuesCall(caps, vols, i) ==
  \/ caps[i] \in {HTTP_CAPABILITY, LOG_CAPABILITY}
  \/ caps[i] = FS_CAPABILITY /\ vols # <<>>

\* First entry from i on for which the loop issues a Host call; Len + 1 when
\* the loop is over and stop_actor is next.
NextCall(caps, vols, i) ==
  IF \E k \in i..Len(caps) : IssuesCall(caps, vols, k)
    THEN CHOOSE k \in i..Len(caps) :
           /\ IssuesCall(caps, vols, k)
           /\ \A j \in i..(k - 1) : ~IssuesCall(caps, vols, j)
    ELSE Len(caps) + 1

\* The await point the task is at when the loop stands at entry i.
StopPc(caps, i) ==
  IF i > Len(caps) THEN "stop_actor"
  ELSE IF caps[i] = FS_CAPABILITY THEN "stop_provider"
  ELSE "stop_link"

\* stop returns: both guards (Host mutex, table write lock) are dropped.
StopReturn(p, res) ==
  /\ pc' = [pc EXCEPT ![p] = "stopped"]
  /\ result' = [result EXCEPT ![p] = res]
  /\ hostLock' = NoTask
  /\ tableLock' = NoTask

\* ProviderState::stop up to host.lock().await in ActorHandle::stop: the
\* write lock, the lookup and the drain of the handle's volumes.
StopBegin(p, maxStops) ==
  /\ pc[p] \in {"idle", "running", "stopped"}
  /\ RwLockFree(tableLock)
  /\ IF handles[p] = NoHandle
       THEN /\ result' = [result EXCEPT ![p] = "ok"]
            /\ trace' = [trace EXCEPT ![p] = <<>>]
            /\ UNCHANGED <<handles, tableLock, pc, volumes, stops>>
       ELSE /\ stops[p] < maxStops
            /\ stops' = [stops EXCEPT ![p] = @ + 1]
            /\ tableLock' = p
            /\ volumes' = [volumes EXCEPT ![p] = handles[p].volumes]
            /\ handles' = [handles EXCEPT ![p].volumes = <<>>]
            /\ pc' = [pc EXCEPT ![p] = "stop_lock"]
            /\ trace' = [trace EXCEPT ![p] = <<>>]
            /\ UNCHANGED result
  /\ UNCHANGED <<hostVars, hostLock, data, capabilities, idx, vidx, ret, runs>>

\* let lock = host.lock().await
StopLock(p) ==
  /\ pc[p] = "stop_lock"
  /\ MutexFree(hostLock)
  /\ hostLock' = p
  /\ LET caps == handles[p].capabilities
         first == NextCall(caps, volumes[p], 1)
     IN /\ idx' = [idx EXCEPT ![p] = first]
        /\ pc' = [pc EXCEPT ![p] = StopPc(caps, first)]
  /\ vidx' = [vidx EXCEPT ![p] = 1]
  /\ UNCHANGED <<hostVars, handles, tableLock, data, volumes, capabilities, ret,
                 result, runs, stops, trace>>

\* FS_CAPABILITY arm, first call of a volume: lock.stop_provider(..).await?
StopProvider(p) ==
  /\ pc[p] = "stop_provider"
  /\ hostLock = p
  /\ LET vol == volumes[p][vidx[p]]
     IN \E ok \in BOOLEAN :
          /\ trace' = [trace EXCEPT ![p] =
                 Append(@, Call("stop_provider", handles[p].key, FS_CAPABILITY, vol.name, ok))]
          /\ IF ok
               THEN /\ hostProviders' = hostProviders \
                          {[cap |-> FS_CAPABILITY, binding |-> vol.name]}
                    /\ pc' = [pc EXCEPT ![p] = "stop_fs_link"]
                    /\ UNCHANGED <<hostLock, tableLock, result>>
               ELSE /\ StopReturn(p, "err")
                    /\ UNCHANGED hostProviders
  /\ UNCHANGED <<hostActors, hostLinks, handles, localVars, ret, runs, stops>>

\* FS_CAPABILITY arm, second call of a volume: lock.remove_link(..).await?
StopFsLink(p) ==
  /\ pc[p] = "stop_fs_link"
  /\ hostLock = p
  /\ LET vol == volumes[p][vidx[p]]
         caps == handles[p].capabilities
         next == NextCall(caps, volumes[p], idx[p] + 1)
     IN \E ok \in BOOLEAN :
          /\ trace' = [trace EXCEPT ![p] =
                 Append(@, Call("remove_link", handles[p].key, FS_CAPABILITY, vol.name, ok))]
          /\ IF ok
               THEN /\ hostLinks' = hostLinks \
                          {[actor |-> handles[p].key, cap |-> FS_CAPABILITY,
                            binding |-> vol.name]}
                    /\ IF vidx[p] < Len(volumes[p])
                         THEN /\ vidx' = [vidx EXCEPT ![p] = @ + 1]
                              /\ idx' = idx
                              /\ pc' = [pc EXCEPT ![p] = "stop_provider"]
                         ELSE /\ vidx' = [vidx EXCEPT ![p] = 1]
                              /\ idx' = [idx EXCEPT ![p] = next]
                              /\ pc' = [pc EXCEPT ![p] = StopPc(caps, next)]
                    /\ UNCHANGED <<hostLock, tableLock, result>>
               ELSE /\ StopReturn(p, "err")
                    /\ UNCHANGED <<hostLinks, idx, vidx>>
  /\ UNCHANGED <<hostActors, hostProviders, handles, data, volumes, capabilities, ret,
                 runs, stops>>

\* HTTP_CAPABILITY and LOG_CAPABILITY arms: lock.remove_link(&key, cap, None).await?
StopLink(p) ==
  /\ pc[p] = "stop_link"
  /\ hostLock = p
  /\ LET caps == handles[p].capabilities
         cap == caps[idx[p]]
         next == NextCall(caps, volumes[p], idx[p] + 1)
     IN \E ok \in BOOLEAN :
          /\ trace' = [trace EXCEPT ![p] =
                 Append(@, Call("remove_link", handles[p].key, cap, NoBinding, ok))]
          /\ IF ok
               THEN /\ hostLinks' = hostLinks \
                          {[actor |-> handles[p].key, cap |-> cap, binding |-> NoBinding]}
                    /\ idx' = [idx EXCEPT ![p] = next]
                    /\ pc' = [pc EXCEPT ![p] = StopPc(caps, next)]
                    /\ UNCHANGED <<hostLock, tableLock, result>>
               ELSE /\ StopReturn(p, "err")
                    /\ UNCHANGED <<hostLinks, idx>>
  /\ UNCHANGED <<hostActors, hostProviders, handles, data, volumes, capabilities, vidx,
                 ret, runs, stops>>

\* lock.stop_actor(&key).await? and Ok(())
StopActor(p) ==
  /\ pc[p] = "stop_actor"
  /\ hostLock = p
  /\ \E ok \in BOOLEAN :
       /\ trace' = [trace EXCEPT ![p] =
              Append(@, Call("stop_actor", handles[p].key, "", NoBinding, ok))]
       /\ IF ok
            THEN /\ hostActors' = hostActors \ {handles[p].key}
                 /\ StopReturn(p, "ok")
            ELSE /\ StopReturn(p, "err")
                 /\ UNCHANGED hostActors
  /\ UNCHANGED <<hostProviders, hostLinks, handles, localVars, ret, runs, stops>>

\* ------------------------------------------------------ observing Host calls
\* The step appends a Host call to p's trace.
Issued(p) == Len(trace'[p]) = Len(trace[p]) + 1
\* That call.
Latest(p) == trace'[p][Len(trace'[p])]
Last(s) == s[Len(s)]
\* The link a descriptor or a recorded call stands for.
LinkOf(pk, cap) == [actor |-> pk, cap |-> cap.name, binding |-> cap.binding]
CallLink(c) == [actor |-> c.actor, cap |-> c.cap, binding |-> c.binding]
\* The calls of a trace with the given operation, in order.
Only(t, op) == SelectSeq(t, LAMBDA c : c.op = op)

\* ------------------------------------------------ WasccProvider (waSCC crate)
WASCC_HTTP_CAPABILITY == "wascc:http_server"
WASCC_LOG_CAPABILITY == "wascc:logging"

\* Module bytes given to the waSCC provider, identified by their public key.
WasccModuleData == Modules({LOG_CAPABILITY}, 1) \cup {InvalidData}

\* Where wascc_run can return an error, in program order; "none": it returns Ok.
WasccFailPoints ==
  <<"temp", "load", "add_actor", "configure_http", "configure_log", "reopen", "none">>

\* Position of a failure point in program order.
FailAt(f) == CHOOSE k \in 1..Len(WasccFailPoints) : WasccFailPoints[k] = f

\* wascc_run_http and wascc_run: the capability vector is HTTP, then logging.
WasccCapabilities == <<WASCC_HTTP_CAPABILITY, WASCC_LOG_CAPABILITY>>

\* RuntimeHandle: the reopened log file and the ActorStopper with the key.
WasccHandle(pk) == [key |-> pk, file |-> "log_output"]

\* WasccProvider::add up to the end of the container loop: fetch_pod_modules,
\* then wascc_run_http on the blocking pool: temp file, Actor::from_bytes,
\* host::add_actor, host::configure per capability, log_output.reopen.
WasccAddRun(p, D) ==
  /\ wasccPc[p] = "idle"
  /\ \E d \in D, fetchOk \in BOOLEAN, f \in Range(WasccFailPoints) :
       LET at == IF d = InvalidData /\ FailAt(f) > FailAt("load") THEN FailAt("load")
                 ELSE FailAt(f)
           pk == public_key(d)
           added == at > FailAt("add_actor")
           configured == {WasccCapabilities[k] : k \in
                            {j \in 1..Len(WasccCapabilities) :
                               at > FailAt("add_actor") + j}}
       IN IF ~fetchOk
            THEN /\ wasccResult' = [wasccResult EXCEPT ![p] = "err"]
                 /\ UNCHANGED <<wasccActors, wasccLinks, wasccPc, wasccRet>>
            ELSE /\ wasccActors' = IF added THEN wasccActors \cup {pk} ELSE wasccActors
                 /\ wasccLinks' = IF added
                                    THEN wasccLinks \cup {[actor |-> pk, cap |-> c] : c \in configured}
                                    ELSE wasccLinks
                 /\ IF at = FailAt("none")
                      THEN /\ wasccRet' = [wasccRet EXCEPT ![p] = WasccHandle(pk)]
                           /\ wasccPc' = [wasccPc EXCEPT ![p] = "add_insert"]
                           /\ UNCHANGED wasccResult
                      ELSE /\ wasccResult' = [wasccResult EXCEPT ![p] = "err"]
                           /\ UNCHANGED <<wasccPc, wasccRet>>
  /\ wasccLast' = [wasccLast EXCEPT ![p] =
                     [op |-> "add", stop |-> "none", handle |-> NoHandle]]
  /\ UNCHANGED <<wasccHandles, wasccLogsResult>>

\* handles.insert(key, handle): HashMap::insert replaces the entry of the key.
TableAfterInsert(table, p, h) == [table EXCEPT ![p] = h]

\* WasccProvider::add, the block under handles.write(): PodHandle::new(..)?
\* and the insert; then Ok(()).
WasccAddInsert(p) ==
  /\ wasccPc[p] = "add_insert"
  /\ \E newOk \in BOOLEAN :
       IF newOk
         THEN /\ wasccHandles' = TableAfterInsert(wasccHandles, p, wasccRet[p])
              /\ wasccResult' = [wasccResult EXCEPT ![p] = "ok"]
         ELSE /\ wasccResult' = [wasccResult EXCEPT ![p] = "err"]
              /\ UNCHANGED wasccHandles
  /\ wasccPc' = [wasccPc EXCEPT ![p] = "idle"]
  /\ wasccRet' = [wasccRet EXCEPT ![p] = NoHandle]
  /\ UNCHANGED <<wasccActors, wasccLinks, wasccLogsResult, wasccLast>>

\* A delete that does not put the handle back when its stop fails.
TableAfterDeleteNoReinsert(table, p, h, stopOk) ==
  [table EXCEPT ![p] = NoHandle]

\* The table after handles.remove(key) and h.stop(): the handle is inserted
\* back under its key if the stop returned an error.
TableAfterDelete(table, p, h, stopOk) ==
  IF stopOk THEN [table EXCEPT ![p] = NoHandle] ELSE [table EXCEPT ![p] = h]

\* A delete that answers an absent pod with an error.
DeleteResultNotFound(found, stopOk) == IF found THEN "ok" ELSE "err"

\* What delete returns: Ok(()) on every path; a stop error is only logged.
DeleteResult(found, stopOk) == "ok"

\* WasccProvider::delete, under handles.write(): remove, then stop
\* (ActorStopper::stop: host::remove_actor, which takes the actor's
\* configuration with it); always Ok(()).
WasccDelete(p) ==
  /\ wasccPc[p] = "idle"
  /\ IF wasccHandles[p] # NoHandle
       THEN \E stopOk \in BOOLEAN :
              /\ wasccActors' = IF stopOk THEN wasccActors \ {wasccHandles[p].key}
                                ELSE wasccActors
              /\ wasccLinks' = IF stopOk
                                 THEN {l \in wasccLinks : l.actor # wasccHandles[p].key}
                                 ELSE wasccLinks
              /\ wasccHandles' = TableAfterDelete(wasccHandles, p, wasccHandles[p], stopOk)
              /\ wasccResult' = [wasccResult EXCEPT ![p] = DeleteResult(TRUE, stopOk)]
              /\ wasccLast' = [wasccLast EXCEPT ![p] =
                                 [op |-> "delete", stop |-> IF stopOk THEN "ok" ELSE "err",
                                  handle |-> wasccHandles[p]]]
       ELSE /\ wasccResult' = [wasccResult EXCEPT ![p] = DeleteResult(FALSE, TRUE)]
            /\ wasccLast' = [wasccLast EXCEPT ![p] =
                               [op |-> "delete", stop |-> "absent", handle |-> NoHandle]]
            /\ UNCHANGED <<wasccActors, wasccLinks, wasccHandles>>
  /\ UNCHANGED <<wasccPc, wasccRet, wasccLogsResult>>

\* A lookup that answers an absent pod with an empty Ok.
LookupOutcomeEmptyOk(table, p, outputOk) ==
  IF table[p] = NoHandle THEN "ok" ELSE IF outputOk THEN "ok" ELSE "err"

\* logs: get_mut(key).ok_or_else(PodNotFound)?, then handle.output(..).
LookupOutcome(table, p, outputOk) ==
  IF table[p] = NoHandle THEN "PodNotFound" ELSE IF outputOk THEN "ok" ELSE "err"

\* WasccProvider::logs, under handles.write().
WasccLogs(p) ==
  /\ \E outputOk \in BOOLEAN :
       wasccLogsResult' = [wasccLogsResult EXCEPT ![p] = LookupOutcome(wasccHandles, p, outputOk)]
  /\ UNCHANGED <<wasccActors, wasccLinks, wasccHandles, wasccPc, wasccRet, wasccResult,
                 wasccLast>>

\* ------------------------------------------- logs, LogHandleFactory, LoggingProvider
\* The task serving a logs request for pod p, as a holder of the table lock.
LogsTask(p) == NumPods + p

\* Texts an actor logs.
LogTexts == {"info something", "warn something"}

\* The record WriteLogger writes for a log call: "[{actor}] {text}".
LogRecord(actor, text) == [actor |-> actor, text |-> text]

\* A factory handing out one shared file description: a new reader goes on
\* where the last one stopped.
NewHandleShared(rs) ==
  [pos |-> IF rs = <<>> THEN 0 ELSE rs[Len(rs)].pos, out |-> <<>>]

\* LogHandleFactory::new_handle: temp.reopen() opens the path again, a file
\* description of its own, positioned at the start.
new_handle(rs) == [pos |-> 0, out |-> <<>>]

\* WasmCloudProvider::logs up to handle.output(..).await: the table's write
\* lock, the lookup, and the reader that output takes from the factory.
LogsBegin(p) ==
  /\ logsPc[p] = "idle"
  /\ RwLockFree(tableLock)
  /\ IF handles[p] = NoHandle
       THEN /\ logsResult' = [logsResult EXCEPT ![p] = LookupOutcome(handles, p, TRUE)]
            /\ UNCHANGED <<tableLock, logsPc, readers>>
       ELSE /\ Len(readers[p]) < MaxReaders
            /\ tableLock' = LogsTask(p)
            /\ logsPc' = [logsPc EXCEPT ![p] = "output"]
            /\ readers' = [readers EXCEPT ![p] = Append(@, new_handle(@))]
            /\ UNCHANGED logsResult
  /\ UNCHANGED <<logFile, written, output_map>>

\* handle.output(..) returns, and logs with it: the write lock is dropped.
LogsOutput(p) ==
  /\ logsPc[p] = "output"
  /\ \E outputOk \in BOOLEAN :
       logsResult' = [logsResult EXCEPT ![p] = LookupOutcome(handles, p, outputOk)]
  /\ logsPc' = [logsPc EXCEPT ![p] = "idle"]
  /\ tableLock' = NoTask
  /\ UNCHANGED <<logFile, written, output_map, readers>>

\* A reader of pod p's log file reads to EOF: everything from its position
\* to the end of the file as it is now.
ReadToEof(p) ==
  /\ \E i \in 1..Len(readers[p]) :
       readers' = [readers EXCEPT ![p][i] =
                     [pos |-> Len(logFile[p]),
                      out |-> @.out \o SubSeq(logFile[p], @.pos + 1, Len(logFile[p]))]]
  /\ UNCHANGED <<logsPc, logsResult, logFile, written, output_map>>

\* The file of a logger whose path was unlinked: no reader can open it.
NoFile == 0

\* NamedTempFile::new_in(&log_path) at the start of a run: a new, empty file
\* with no reader. The file of an earlier run of the pod that failed was
\* unlinked when that run dropped its NamedTempFile; a logger opened on it
\* keeps writing to the unlinked file.
NewTempFile(p) ==
  /\ logFile' = [logFile EXCEPT ![p] = <<>>]
  /\ written' = [written EXCEPT ![p] = <<>>]
  /\ readers' = [readers EXCEPT ![p] = <<>>]
  /\ output_map' = {[e EXCEPT !.file = IF @ = p THEN NoFile ELSE @] : e \in output_map}
  /\ UNCHANGED <<logsPc, logsResult>>

\* A configure that keeps the logger an actor already has.
configureKeepFirst(map, module, file) ==
  IF \E e \in map : e.module = module
    THEN map
    ELSE map \cup {[module |-> module, file |-> file, pos |-> 0]}

\* LoggingProvider::configure: the file of LOG_PATH opened with write(true),
\* so positioned at its start, and output_map.insert(config.module, logger).
configure(map, module, file) ==
  {e \in map : e.module # module} \cup {[module |-> module, file |-> file, pos |-> 0]}

\* A write of one record at position pos of a file.
WriteAt(content, pos, rec) ==
  [k \in 1..(IF pos + 1 > Len(content) THEN pos + 1 ELSE Len(content)) |->
     IF k = pos + 1 THEN rec ELSE IF k <= Len(content) THEN content[k] ELSE rec]

\* LoggingProvider::handle_call, (OP_LOG, actor): an unknown level or an actor
\* with no logger is an error; else the record goes through the actor's logger.
HandleLog(actor) ==
  /\ \E t \in LogTexts, levelOk \in BOOLEAN :
       IF levelOk /\ \E e \in output_map : e.module = actor /\ e.file # NoFile
         THEN LET e == CHOOSE x \in output_map : x.module = actor
              IN /\ Len(logFile[e.file]) < MaxLog
                 /\ logFile' = [logFile EXCEPT ![e.file] =
                                  WriteAt(@, e.pos, LogRecord(actor, t))]
                 /\ written' = [written EXCEPT ![e.file] = Append(@, LogRecord(actor, t))]
                 /\ output_map' = (output_map \ {e}) \cup {[e EXCEPT !.pos = @ + 1]}
         ELSE UNCHANGED <<logFile, written, output_map>>
  /\ UNCHANGED <<logsPc, logsResult, readers>>

\* The bind the Host sends the logging provider when a set_link for the
\* logging capability succeeds: (OP_BIND_ACTOR, system) -> configure, with
\* LOG_PATH the temp file of the run.
BindOnSetLink(p) ==
  /\ output_map' =
       IF /\ Issued(p) /\ Latest(p).op = "set_link"
          /\ Latest(p).cap = LOG_CAPABILITY /\ Latest(p).ok
         THEN configure(output_map, Latest(p).actor, p)
         ELSE output_map
  /\ UNCHANGED <<logsPc, logsResult, logFile, written, readers>>

\* ------------------------------------------------------------ port allocator
\* The ports allocate_port may pick: those with no reservation.
FreePorts(map) == {n \in Ports : map[n] = NoTask}

\* allocate_port(workload_key), by the caller before the run: an unused port
\* of the range is reserved for the pod (none free: PortExhausted, nothing
\* changes).
AllocatePort(p) ==
  /\ pc[p] = "idle"
  /\ port[p] = NoPort
  /\ runs[p] < MaxRuns
  /\ \E n \in FreePorts(port_map) :
       /\ port_map' = [port_map EXCEPT ![n] = p]
       /\ port' = [port EXCEPT ![p] = n]
  /\ UNCHANGED <<httpPort, stoppedOk>>

\* release_port, by the caller after a stop that returned Ok: the pod's
\* reservation is dropped (no reservation: no-op).
ReleasePort(p) ==
  /\ pc[p] = "stopped"
  /\ result[p] = "ok"
  /\ port[p] # NoPort
  /\ port_map' = [n \in Ports |-> IF port_map[n] = p THEN NoTask ELSE port_map[n]]
  /\ port' = [port EXCEPT ![p] = NoPort]
  /\ UNCHANGED <<httpPort, stoppedOk>>

\* A run that configures HTTP with a fixed port of the range.
HttpPortFixed(port_assigned) == NumPorts

\* httpenv.insert("PORT", port_assigned.to_string())
HttpPort(port_assigned) == port_assigned

\* The PORT of the HTTP descriptor wasmcloud_run builds for module d, if it
\* builds one.
ConfiguredPort(d, port_assigned) ==
  IF d # InvalidData /\ HTTP_CAPABILITY \in Range(actor_capabilities(d))
    THEN HttpPort(port_assigned) ELSE NoPort

\* The steps of a pod's task after the entry of its run.
PodTaskAfterStart(p, maxStops) ==
  \/ RunLock(p)
  \/ RunProvision(p)
  \/ RunStartActor(p)
  \/ RunSetLink(p)
  \/ Register(p)
  \/ StopBegin(p, maxStops)
  \/ StopLock(p)
  \/ StopProvider(p)
  \/ StopFsLink(p)
  \/ StopLink(p)
  \/ StopActor(p)

\* The task of one pod.
PodTask(p, D, V, maxStops) ==
  \/ RunStart(p, D, V)
  \/ PodTaskAfterStart(p, maxStops)

\* The tasks of the pods in P, running modules of D with volume lists of V.
Tasks(P, D, V, maxStops) ==
  /\ \E p \in P : PodTask(p, D, V, maxStops)
  /\ UNCHANGED <<wasccVars, logVars, portVars, restVars>>

\* One pod's task at a time, over every module and volume list.
Next == Tasks(1..SeqTasks, ModuleData, VolumeLists, MaxStops)
Spec == Init /\ [][Next]_vars

\* The tasks of all pods interleaved at their await points.
NextConc == Tasks(Pods, ConcModuleData, ConcVolumeLists, ConcMaxStops)
SpecConc == Init /\ [][NextConc]_vars

\* The state of runs and stops that a logs request leaves alone.
podVarsButTableLock ==
  <<hostActors, hostProviders, hostLinks, hostLock, handles,
    pc, data, volumes, capabilities, idx, vidx, ret, result, runs, stops, trace>>

\* Modules and volumes of the handle-table specification.
TableModuleData == Modules({HTTP_CAPABILITY}, 1) \cup {InvalidData}
NoVolumes == Volumes(0)

\* The handle tables of both providers: runs and stops of a wasmCloud pod,
\* add and delete of a waSCC pod, and logs requests to both.
NextTable ==
  \/ Tasks(1..SeqTasks, TableModuleData, NoVolumes, ConcMaxStops)
  \/ \E p \in 1..SeqTasks :
       /\ \/ WasccAddRun(p, WasccModuleData)
          \/ WasccAddInsert(p)
          \/ WasccDelete(p)
          \/ WasccLogs(p)
       /\ UNCHANGED <<podVars, logVars, portVars, restVars>>
  \/ \E p \in 1..SeqTasks :
       /\ \/ LogsBegin(p)
          \/ LogsOutput(p)
       /\ UNCHANGED <<podVarsButTableLock, wasccVars, portVars, restVars>>
SpecTable == Init /\ [][NextTable]_vars

\* Modules of the lock specification.
LockModuleData == Modules({HTTP_CAPABILITY, LOG_CAPABILITY}, 1) \cup {InvalidData}

\* The two locks: runs and stops of all pods interleaved with logs requests
\* for all pods.
NextLocks ==
  \/ Tasks(Pods, LockModuleData, NoVolumes, ConcMaxStops)
  \/ \E p \in Pods :
       /\ \/ LogsBegin(p)
          \/ LogsOutput(p)
       /\ UNCHANGED <<podVarsButTableLock, wasccVars, portVars, restVars>>
SpecLocks == Init /\ [][NextLocks]_vars

\* Modules of the log specification.
LogModuleData == Modules({LOG_CAPABILITY, HTTP_CAPABILITY}, ConcMaxDeclared) \cup {InvalidData}
ActorKeys == {public_key(m) : m \in LogModuleData \ {InvalidData}}

\* The log files: runs and stops of a pod with the binds of the logging
\* provider, log calls of the actors, logs requests and their readers.
NextLogs ==
  \/ \E p \in 1..SeqTasks :
       /\ RunStart(p, LogModuleData, NoVolumes)
       /\ NewTempFile(p)
       /\ UNCHANGED <<wasccVars, portVars, restVars>>
  \/ \E p \in 1..SeqTasks :
       /\ PodTaskAfterStart(p, ConcMaxStops)
       /\ BindOnSetLink(p)
       /\ UNCHANGED <<wasccVars, portVars, restVars>>
  \/ \E p \in 1..SeqTasks :
       /\ \/ LogsBegin(p)
          \/ LogsOutput(p)
       /\ UNCHANGED <<podVarsButTableLock, wasccVars, portVars, restVars>>
  \/ \E p \in 1..SeqTasks :
       /\ ReadToEof(p)
       /\ UNCHANGED <<podVars, wasccVars, portVars, restVars>>
  \/ \E actor \in ActorKeys :
       /\ HandleLog(actor)
       /\ UNCHANGED <<podVars, wasccVars, portVars, restVars>>
SpecLogs == Init /\ [][NextLogs]_vars

\* A cancellation that leaves the guard of the Host lock behind.
HostLockAfterDropLeaked(holder, p) == holder

\* The holder of the Host lock after task p's future is dropped: the
\* MutexGuard `lock`, if the future had it, is dropped with it.
HostLockAfterDrop(holder, p) == IF holder = p THEN NoTask ELSE holder

\* The future of wasmcloud_run is dropped at one of its await points
\* (host.lock(), start_native_capability, start_actor, set_link): its locals
\* are dropped, nothing else runs.
RunCancel(p) ==
  /\ pc[p] \in {"run_lock", "run_provision", "run_start_actor", "run_set_link"}
  /\ pc' = [pc EXCEPT ![p] = "idle"]
  /\ result' = [result EXCEPT ![p] = "cancelled"]
  /\ ret' = [ret EXCEPT ![p] = NoHandle]
  /\ hostLock' = HostLockAfterDrop(hostLock, p)
  /\ UNCHANGED <<hostVars, handles, tableLock, localVars, runs, stops, trace>>

\* Runs and stops of all pods, where a run can be cancelled at any of its
\* await points.
NextCancel ==
  \/ Tasks(Pods, ConcModuleData, ConcVolumeLists, ConcMaxStops)
  \/ \E p \in Pods :
       /\ RunCancel(p)
       /\ UNCHANGED <<wasccVars, logVars, portVars, restVars>>
SpecCancel == Init /\ [][NextCancel]_vars

\* ---------------------------------------------------- link environments
\* The key of the logging overlay (wasmcloud_logging::LOG_PATH_KEY), of the
\* HTTP overlay, and of the blob-storage overlay.
LOG_PATH_KEY == "LOG_PATH"
PORT_KEY == "PORT"
FS_CONFIG_ROOTDIR == "ROOT"

\* EnvVars, a HashMap<String, String>: a set of [key, value] with one entry
\* per key.
EnvKeys == {"FOO", LOG_PATH_KEY, PORT_KEY, FS_CONFIG_ROOTDIR}
Envs == {{[key |-> k, value |-> "bar"] : k \in K} : K \in SUBSET EnvKeys}
Keys(e) == {x.key : x \in e}
Get(e, k) == (CHOOSE x \in e : x.key = k).value

\* An insert that keeps the entry of a key that is present.
InsertIfAbsent(e, k, v) ==
  IF k \in Keys(e) THEN e ELSE e \cup {[key |-> k, value |-> v]}

\* HashMap::insert: the entry of the key is replaced.
Insert(e, k, v) == {x \in e : x.key # k} \cup {[key |-> k, value |-> v]}

\* log_output.path().to_str(): the temp file of pod p's run in the log
\* directory.
LogPath(p) == "wasmcloud-logs/tmp" \o ToString(p)
\* vol.host_path.as_path().to_str()
PathString(path) == path[1] \o "/" \o path[2]

\* The env of the descriptors built before the Host is locked, parallel to
\* StaticCapabilities: env.clone() with LOG_PATH, env.clone() with PORT.
StaticEnvs(actor_caps, e, p, port_assigned) ==
  (IF LOG_CAPABILITY \in Range(actor_caps)
     THEN <<Insert(e, LOG_PATH_KEY, LogPath(p))>> ELSE <<>>)
  \o (IF HTTP_CAPABILITY \in Range(actor_caps)
        THEN <<Insert(e, PORT_KEY, ToString(port_assigned))>> ELSE <<>>)

\* fsenv: env.clone() with ROOT = the volume's host path.
FsEnv(e, vol) == Insert(e, FS_CONFIG_ROOTDIR, PathString(vol.host_path))

\* The entry of a run with its declared environment and its assigned port.
RunStartEnv(p, D, V) ==
  /\ RunStart(p, D, V)
  /\ \E e \in Envs, n \in Ports :
       /\ env' = [env EXCEPT ![p] = e]
       /\ port' = [port EXCEPT ![p] = n]
       /\ httpPort' = [httpPort EXCEPT ![p] = ConfiguredPort(data'[p], n)]
       /\ capEnv' = [capEnv EXCEPT ![p] =
                       IF pc'[p] = "run_lock"
                         THEN StaticEnvs(actor_capabilities(data'[p]), e, p, n)
                         ELSE <<>>]
  /\ UNCHANGED <<linkEnv, port_map, stoppedOk>>

\* The steps after the entry: a provisioned volume's descriptor gets fsenv,
\* set_link hands cap.env to the Host, remove_link takes the link away.
PodTaskEnv(p, maxStops) ==
  /\ PodTaskAfterStart(p, maxStops)
  /\ capEnv' = [capEnv EXCEPT ![p] =
                  IF Len(capabilities'[p]) = Len(capabilities[p]) + 1
                    THEN Append(@, FsEnv(env[p], volumes[p][idx[p]]))
                    ELSE @]
  /\ linkEnv' =
       IF Issued(p) /\ Latest(p).op = "set_link" /\ Latest(p).ok
         THEN {x \in linkEnv : x.link # CallLink(Latest(p))}
              \cup {[link |-> CallLink(Latest(p)), env |-> capEnv[p][idx[p]],
                     pod |-> p, declared |-> env[p], port_assigned |-> port[p]]}
         ELSE {x \in linkEnv : x.link \in hostLinks'}
  /\ UNCHANGED <<env, portVars>>

\* Runs and stops of a pod with a declared environment.
NextEnv ==
  \/ \E p \in 1..SeqTasks :
       /\ RunStartEnv(p, ConcModuleData, ConcVolumeLists)
       /\ UNCHANGED <<wasccVars, logVars, lastBind, schedVars, callVars>>
  \/ \E p \in 1..SeqTasks :
       /\ PodTaskEnv(p, ConcMaxStops)
       /\ UNCHANGED <<wasccVars, logVars, lastBind, schedVars, callVars>>
SpecEnv == Init /\ [][NextEnv]_vars

\* ------------------------------------------- the logging provider's outputs
\* The latest bind per actor, after a bind of the actor with the file.
BindRecorded(binds, module, file) ==
  {b \in binds : b.module # module} \cup {[module |-> module, file |-> file]}

\* The entry of a run with its new temp file; binds of the unlinked file of
\* an earlier run of the pod are binds of no readable file.
RunStartLog(p, D) ==
  /\ RunStart(p, D, NoVolumes)
  /\ NewTempFile(p)
  /\ lastBind' = {[b EXCEPT !.file = IF @ = p THEN NoFile ELSE @] : b \in lastBind}

\* The steps after the entry, with the bind the Host sends for a logging
\* link.
PodTaskLog(p, maxStops) ==
  /\ PodTaskAfterStart(p, maxStops)
  /\ BindOnSetLink(p)
  /\ lastBind' =
       IF /\ Issued(p) /\ Latest(p).op = "set_link"
          /\ Latest(p).cap = LOG_CAPABILITY /\ Latest(p).ok
         THEN BindRecorded(lastBind, Latest(p).actor, p)
         ELSE lastBind

\* The logging provider under the runs of all pods: binds and log calls of
\* several actors interleaved.
NextLogger ==
  \/ \E p \in Pods :
       /\ RunStartLog(p, LogModuleData)
       /\ UNCHANGED <<wasccVars, portVars, envVars, schedVars, callVars>>
  \/ \E p \in Pods :
       /\ PodTaskLog(p, ConcMaxStops)
       /\ UNCHANGED <<wasccVars, portVars, envVars, schedVars, callVars>>
  \/ \E actor \in ActorKeys :
       /\ HandleLog(actor)
       /\ UNCHANGED <<podVars, wasccVars, portVars, restVars>>
SpecLogger == Init /\ [][NextLogger]_vars

\* ------------------------------------------------------ wascc: can_schedule
TARGET_WASM32_WASCC == "wasm32-wascc"
ARCH_SELECTOR == "beta.kubernetes.io/arch"

\* Node selectors of the pods offered to the provider: maps over a few keys
\* and values, and None (the empty set) for a pod with no node selector.
SelectorKeys == {ARCH_SELECTOR, "kubernetes.io/os"}
SelectorValues == {TARGET_WASM32_WASCC, "amd64", "wasm32-wasi"}
SelectorMaps ==
  UNION {{ {[key |-> k, value |-> f[k]] : k \in K} : f \in [K -> SelectorValues]} :
           K \in SUBSET SelectorKeys}
NodeSelectors == {{}} \cup {{i} : i \in SelectorMaps}

\* BTreeMap::get: Some(value) or None.
GetOption(i, k) == {x.value : x \in {y \in i : y.key = k}}

\* Option::unwrap_or.
UnwrapOr(opt, default) == IF opt = {} THEN default ELSE CHOOSE b \in opt : TRUE

\* A can_schedule that takes a pod with no arch entry.
can_scheduleUnwrapTrue(selector) ==
  UnwrapOr(UNION {{v = TARGET_WASM32_WASCC : v \in GetOption(i, ARCH_SELECTOR)} :
                    i \in selector}, TRUE)

\* WasccProvider::can_schedule: node_selector().and_then(|i| i.get(arch)
\* .map(|v| v.eq(TARGET_WASM32_WASCC))).unwrap_or(false).
can_schedule(selector) ==
  UnwrapOr(UNION {{v = TARGET_WASM32_WASCC : v \in GetOption(i, ARCH_SELECTOR)} :
                    i \in selector}, FALSE)

\* The kubelet asks the provider whether it takes pod p.
CanSchedule(p) ==
  /\ \E selector \in NodeSelectors :
       /\ nodeSelector' = [nodeSelector EXCEPT ![p] = selector]
       /\ schedulable' = [schedulable EXCEPT ![p] = {can_schedule(selector)}]
  /\ UNCHANGED <<podVars, wasccVars, logVars, portVars, envVars, lastBind, callVars>>

NextSchedule == \E p \in Pods : CanSchedule(p)
SpecSchedule == Init /\ [][NextSchedule]_vars

\* ------------------------------------------- LoggingProvider::handle_call
\* The actor name of calls that come from the Host itself.
SYSTEM_ACTOR == <<"system">>
OP_BIND_ACTOR == "BindActor"
OP_REMOVE_ACTOR == "RemoveActor"
OP_HEALTH_REQUEST == "HealthRequest"
OP_LOG == "WriteLog"
\* An operation the provider has no arm for.
OP_OTHER == "Other"
CallOps == {OP_BIND_ACTOR, OP_REMOVE_ACTOR, OP_HEALTH_REQUEST, OP_LOG, OP_OTHER}

\* The callers: the Host and the actors of a few modules.
CallModules == {public_key(d) : d \in Modules({LOG_CAPABILITY, HTTP_CAPABILITY}, 1)}
CallActors == {SYSTEM_ACTOR} \cup CallModules

\* LOG_PATH of a bind's configuration: Some(path of a pod's temp file) or None.
LogPaths == {{}} \cup {{f} : f \in Pods}

\* A match that looks at the operation only.
ArmAnyActor(op, actor) ==
  IF op = OP_BIND_ACTOR THEN "bind"
  ELSE IF op = OP_REMOVE_ACTOR THEN "remove"
  ELSE IF op = OP_HEALTH_REQUEST THEN "health"
  ELSE IF op = OP_LOG THEN "log"
  ELSE "unknown"

\* match (op, actor): the arm of handle_call that takes the call.
Arm(op, actor) ==
  IF op = OP_BIND_ACTOR /\ actor = SYSTEM_ACTOR THEN "bind"
  ELSE IF op = OP_REMOVE_ACTOR /\ actor = SYSTEM_ACTOR THEN "remove"
  ELSE IF op = OP_HEALTH_REQUEST /\ actor = SYSTEM_ACTOR THEN "health"
  ELSE IF op = OP_LOG THEN "log"
  ELSE "unknown"

\* A remove-actor arm that drops the actor's logger.
AfterRemoveActorDropped(map, module) == {e \in map : e.module # module}

\* (OP_REMOVE_ACTOR, SYSTEM_ACTOR) => Ok(vec![]): the map after the call.
AfterRemoveActor(map, module) == map

\* handle_call returns.
Returns(actor, op, res) ==
  lastCall' = [n |-> lastCall.n + 1, actor |-> actor, op |-> op, result |-> res]

\* One call of handle_call(actor, op, msg), over the messages of the
\* operation: the configuration of a bind or a remove, the text and level of
\* a log call.
HandleCall(actor, op) ==
  /\ lastCall.n < MaxCalls
  /\ LET arm == Arm(op, actor)
     IN \/ /\ arm = "bind"
           /\ \E module \in CallModules, path \in LogPaths, openOk \in BOOLEAN :
                IF path = {} \/ ~openOk
                  THEN /\ Returns(actor, op, "config error")
                       /\ UNCHANGED <<output_map, lastBind>>
                  ELSE LET f == CHOOSE x \in path : TRUE
                       IN /\ output_map' = configure(output_map, module, f)
                          /\ lastBind' = BindRecorded(lastBind, module, f)
                          /\ Returns(actor, op, "ok")
           /\ UNCHANGED <<logFile, written, unbound>>
        \/ /\ arm = "remove"
           /\ \E module \in CallModules :
                /\ output_map' = AfterRemoveActor(output_map, module)
                /\ unbound' = unbound \cup {module}
           /\ Returns(actor, op, "ok")
           /\ UNCHANGED <<logFile, written, lastBind>>
        \/ /\ arm = "health"
           /\ Returns(actor, op, "ok")
           /\ UNCHANGED <<logFile, written, output_map, lastBind, unbound>>
        \/ /\ arm = "log"
           /\ \E t \in LogTexts, levelOk \in BOOLEAN :
                IF ~levelOk
                  THEN /\ Returns(actor, op, "Unknown log level")
                       /\ UNCHANGED <<logFile, written, output_map>>
                ELSE IF ~\E e \in output_map : e.module = actor
                  THEN /\ Returns(actor, op, "Unable to find logger")
                       /\ UNCHANGED <<logFile, written, output_map>>
                ELSE LET e == CHOOSE x \in output_map : x.module = actor
                     IN /\ Len(logFile[e.file]) < MaxLog
                        /\ logFile' = [logFile EXCEPT ![e.file] =
                                         WriteAt(@, e.pos, LogRecord(actor, t))]
                        /\ written' = [written EXCEPT ![e.file] =
                                         Append(@, LogRecord(actor, t))]
                        /\ output_map' = (output_map \ {e}) \cup {[e EXCEPT !.pos = @ + 1]}
                        /\ Returns(actor, op, "ok")
           /\ UNCHANGED <<lastBind, unbound>>
        \/ /\ arm = "unknown"
           /\ Returns(actor, op, "Unknown operation")
           /\ UNCHANGED <<logFile, written, output_map, lastBind, unbound>>
  /\ UNCHANGED <<logsPc, logsResult, readers>>

\* The logging provider under the calls of the Host and of the actors.
NextProvider ==
  \E actor \in CallActors, op \in CallOps :
    /\ HandleCall(actor, op)
    /\ UNCHANGED <<podVars, wasccVars, portVars, envVars, schedVars>>
SpecProvider == Init /\ [][NextProvider]_vars

\* Modules of the port specification.
PortModuleData == Modules({HTTP_CAPABILITY, LOG_CAPABILITY}, 1) \cup {InvalidData}

\* This step of pod p is the return of Ok from a stop of its registered handle
\* (ProviderState::stop returns handle.stop().await).
StopReturnsOk(p) ==
  /\ handles[p] # NoHandle
  /\ pc[p] # "stopped"
  /\ pc'[p] = "stopped"
  /\ result'[p] = "ok"

\* The port allocator: every pod's caller reserves a port, runs the module
\* with it, stops the pod and releases the port.
NextPorts ==
  \/ \E p \in Pods :
       /\ \/ AllocatePort(p)
          \/ ReleasePort(p)
       /\ UNCHANGED <<podVars, wasccVars, logVars, restVars>>
  \/ \E p \in Pods :
       /\ port[p] # NoPort
       /\ RunStart(p, PortModuleData, NoVolumes)
       /\ httpPort' = [httpPort EXCEPT ![p] = ConfiguredPort(data'[p], port[p])]
       /\ UNCHANGED <<port_map, port, stoppedOk, wasccVars, logVars, restVars>>
  \/ \E p \in Pods :
       /\ PodTaskAfterStart(p, ConcMaxStops)
       /\ stoppedOk' = [stoppedOk EXCEPT ![p] = @ \/ StopReturnsOk(p)]
       /\ UNCHANGED <<port_map, port, httpPort, wasccVars, logVars, restVars>>
SpecPorts == Init /\ [][NextPorts]_vars

\* ------------------------------------------------------------------ claims
\* C1: a run whose set_link fails for the k-th descriptor returns an error
\* and rolls nothing back: the failing step leaves the Host as it was, the
\* actor is started, the first k-1 links are in the Host, and the run has
\* issued no remove_link and no stop_actor.
C1_NoRollback ==
  [][\A p \in Pods :
       (Issued(p) /\ Latest(p).op = "set_link" /\ ~Latest(p).ok) =>
         LET pk == public_key(data[p])
             k == Len(Only(trace'[p], "set_link"))
         IN /\ result'[p] = "err" /\ pc'[p] = "idle" /\ ret'[p] = NoHandle
            /\ hostVars' = hostVars
            /\ pk \in hostActors'
            /\ \A j \in 1..(k - 1) : LinkOf(pk, capabilities[p][j]) \in hostLinks'
            /\ \A c \in Range(trace'[p]) : c.op \notin {"remove_link", "stop_actor"}]_vars

\* A run failed at its second set_link, the first link and the actor in place.
C1_Witness ==
  \E p \in Pods :
    /\ pc[p] = "idle" /\ result[p] = "err"
    /\ Len(Only(trace[p], "set_link")) = 2
    /\ ~Last(trace[p]).ok /\ Last(trace[p]).op = "set_link"
    /\ CallLink(Only(trace[p], "set_link")[1]) \in hostLinks
    /\ Last(trace[p]).actor \in hostActors

\* The links a handle is responsible for: one per managed capability of its
\* list, blob storage once per volume of vols.
HandleLinks(h, vols) ==
  {[actor |-> h.key, cap |-> c, binding |-> NoBinding] :
     c \in Range(h.capabilities) \cap {HTTP_CAPABILITY, LOG_CAPABILITY}}
  \cup {[actor |-> h.key, cap |-> FS_CAPABILITY, binding |-> v.name] :
          v \in IF FS_CAPABILITY \in Range(h.capabilities) THEN Range(vols) ELSE {}}

\* The step in which p's stop of its handle returns.
StopReturns(p) == pc[p] \in {"stop_provider", "stop_fs_link", "stop_link", "stop_actor"}
                  /\ pc'[p] = "stopped"

\* C2: a failed unlink or provider stop does not abort the teardown: when
\* stop has returned, it has issued an unlink for every link of the handle
\* (every capability of the list, every drained volume) and a stop_actor.
C2_TeardownNotAborted ==
  \A p \in Pods :
    pc[p] = "stopped" =>
      /\ \E c \in Range(trace[p]) : c.op = "stop_actor"
      /\ \A l \in HandleLinks(handles[p], volumes[p]) :
           \E c \in Range(trace[p]) : c.op = "remove_link" /\ CallLink(c) = l

RunReturnsOk(p) == pc[p] \in {"run_start_actor", "run_set_link"} /\ pc'[p] = "run_ok"

\* The links the calls of a trace set successfully.
LinksSet(t) == {CallLink(c) : c \in {x \in Range(t) : x.op = "set_link" /\ x.ok}}

\* The capability names linked to an actor in a set of links.
LinkedNames(links, pk) == {l.cap : l \in {x \in links : x.actor = pk}}

\* C4 as stated: when a run of a module declaring the capability set C
\* returns Ok, the capabilities linked to the actor in the Host are exactly C.
C4_ExactlyDeclared ==
  [][\A p \in Pods :
       RunReturnsOk(p) =>
         LinkedNames(hostLinks', public_key(data[p])) = Range(actor_capabilities(data[p]))]_vars

\* C4 amended: when a run returns Ok it has set exactly these links, all in
\* the Host: logging and HTTP if declared, blob storage once per volume if
\* declared (none with an empty volume list); and no capability outside the
\* declared set is linked to the actor in the Host.
C4_LinkedAsDeclared ==
  [][\A p \in Pods :
       RunReturnsOk(p) =>
         LET pk == public_key(data[p])
             declared == Range(actor_capabilities(data[p]))
             expected ==
               {[actor |-> pk, cap |-> c, binding |-> NoBinding] :
                  c \in declared \cap {LOG_CAPABILITY, HTTP_CAPABILITY}}
               \cup {[actor |-> pk, cap |-> FS_CAPABILITY, binding |-> v.name] :
                       v \in IF FS_CAPABILITY \in declared THEN Range(volumes[p]) ELSE {}}
         IN /\ LinksSet(trace'[p]) = expected
            /\ expected \subseteq hostLinks'
            /\ LinkedNames(hostLinks', pk) \subseteq declared]_vars

\* A run of a module declaring blob storage and logging returned Ok with a
\* volume; and one declaring blob storage returned Ok with no volume.
C4_Witness ==
  \E p \in Pods :
    /\ pc[p] = "run_ok"
    /\ Range(actor_capabilities(data[p])) = {FS_CAPABILITY, LOG_CAPABILITY}
    /\ Len(volumes[p]) = 1
    /\ LinkedNames(hostLinks, public_key(data[p])) = {FS_CAPABILITY, LOG_CAPABILITY}

\* C5 as stated: a link of an actor to a capability is in the Host if and
\* only if the capability's name is in the list of a registered handle of
\* that actor.
C5_LinkIffListed ==
  \A m \in ModuleData \ {InvalidData}, c \in CapabilityNames :
    (c \in LinkedNames(hostLinks, public_key(m)))
      <=> \E p \in Pods : /\ handles[p] # NoHandle
                          /\ handles[p].key = public_key(m)
                          /\ c \in Range(handles[p].capabilities)

\* C5 amended: a link of an actor to a capability that is in the Host has its
\* capability name in the list of every registered handle of that actor.
C5_LinkOnlyIfListed ==
  \A l \in hostLinks, p \in Pods :
    (handles[p] # NoHandle /\ handles[p].key = l.actor)
      => l.cap \in Range(handles[p].capabilities)

\* A registered handle whose actor has two links in the Host.
C5_Witness ==
  \E p \in Pods :
    /\ handles[p] # NoHandle
    /\ Cardinality(LinksOf(handles[p].key)) = 2

IsPrefix(a, b) == Len(a) <= Len(b) /\ \A k \in 1..Len(a) : a[k] = b[k]

\* What a call is about, whatever it returned.
Shape(c) == [op |-> c.op, cap |-> c.cap, binding |-> c.binding]
Shapes(t) == [k \in 1..Len(t) |-> Shape(t[k])]

\* The links of a run in the fixed precedence: logging, HTTP, then blob
\* storage once per volume in list order, each if declared.
PrecedenceOrder(declared, vols) ==
  (IF LOG_CAPABILITY \in declared
     THEN <<[op |-> "set_link", cap |-> LOG_CAPABILITY, binding |-> NoBinding]>> ELSE <<>>)
  \o (IF HTTP_CAPABILITY \in declared
        THEN <<[op |-> "set_link", cap |-> HTTP_CAPABILITY, binding |-> NoBinding]>> ELSE <<>>)
  \o (IF FS_CAPABILITY \in declared
        THEN [k \in 1..Len(vols) |->
                [op |-> "set_link", cap |-> FS_CAPABILITY, binding |-> vols[k].name]]
        ELSE <<>>)

\* C7: the set_link calls of a run follow the precedence logging, HTTP, blob
\* storage (one per volume, in list order), restricted to what the module
\* declares and whatever the order of its declaration; a run that returned Ok
\* has issued all of them.
C7_LinkPrecedence ==
  \A p \in Pods :
    LET links == Shapes(Only(trace[p], "set_link"))
        order == PrecedenceOrder(Range(actor_capabilities(data[p])), volumes[p])
    IN /\ links # <<>> => IsPrefix(links, order)
       /\ pc[p] = "run_ok" => links = order

\* A module declaring blob storage, HTTP, logging in that order was linked
\* logging, HTTP, data, cache.
C7_Witness ==
  \E p \in Pods :
    /\ pc[p] = "run_ok"
    /\ actor_capabilities(data[p]) = <<FS_CAPABILITY, HTTP_CAPABILITY, LOG_CAPABILITY>>
    /\ Len(volumes[p]) = 2
    /\ Len(Only(trace[p], "set_link")) = 4
    /\ Only(trace[p], "set_link")[1].cap = LOG_CAPABILITY

\* C8: every set_link of a run comes after a start_actor of the same run
\* that succeeded, and a start_actor that failed is the run's last Host call.
C8_ActorBeforeLinks ==
  \A p \in Pods : \A k \in 1..Len(trace[p]) :
    /\ trace[p][k].op = "set_link" =>
         \E j \in 1..(k - 1) : /\ trace[p][j].op = "start_actor" /\ trace[p][j].ok
                               /\ trace[p][j].actor = trace[p][k].actor
    /\ (trace[p][k].op = "start_actor" /\ ~trace[p][k].ok) =>
         /\ k = Len(trace[p])
         /\ pc[p] = "idle" /\ result[p] = "err"

\* A run whose start_actor failed, for a module that declares capabilities.
C8_Witness ==
  \E p \in Pods :
    /\ trace[p] # <<>>
    /\ Last(trace[p]).op = "start_actor" /\ ~Last(trace[p]).ok
    /\ capabilities[p] # <<>>
    /\ LinksOf(public_key(data[p])) = {}

\* C9: when a set_link for (capability, binding) is issued, the provider of
\* that (capability, binding) is running in the Host, and for a blob-storage
\* binding its start_native_capability has returned Ok earlier in the run.
C9_ProvisionedBeforeLink ==
  [][\A p \in Pods :
       (Issued(p) /\ Latest(p).op = "set_link") =>
         LET c == Latest(p)
         IN /\ [cap |-> c.cap, binding |-> c.binding] \in hostProviders
            /\ c.cap = FS_CAPABILITY =>
                 \E j \in 1..Len(trace[p]) :
                   /\ trace[p][j].op = "start_provider" /\ trace[p][j].ok
                   /\ trace[p][j].binding = c.binding]_vars

\* A run linked logging and a blob-storage volume.
C9_Witness ==
  \E p \in Pods :
    /\ \E c \in Range(trace[p]) : c.op = "set_link" /\ c.cap = FS_CAPABILITY /\ c.ok
    /\ \E c \in Range(trace[p]) : c.op = "set_link" /\ c.cap = LOG_CAPABILITY /\ c.ok

\* The task is in, or has returned from, a stop of its handle.
InStop(p) ==
  pc[p] \in {"stop_lock", "stop_provider", "stop_fs_link", "stop_link", "stop_actor",
             "stopped"}

\* Link precedence rank of a capability name.
Rank(c) ==
  IF c = LOG_CAPABILITY THEN 1 ELSE IF c = HTTP_CAPABILITY THEN 2 ELSE 3

\* C10 as stated: the unlinks of a stop come in the reverse of the link
\* precedence (blob storage, then HTTP, then logging), and stop_actor after
\* every unlink.
C10_ReversePrecedence ==
  \A p \in Pods :
    InStop(p) =>
      LET unlinks == Only(trace[p], "remove_link")
      IN /\ \A i, j \in 1..Len(unlinks) : i < j => Rank(unlinks[i].cap) >= Rank(unlinks[j].cap)
         /\ \A k \in 1..Len(trace[p]) : trace[p][k].op = "stop_actor" => k = Len(trace[p])

RECURSIVE DeclaredTeardown(_, _)
\* The Host calls of a stop in the order of the handle's capability list:
\* per entry, an unlink for HTTP or logging; for blob storage, per volume in
\* list order, a provider stop and an unlink; nothing for any other name.
DeclaredTeardown(caps, vols) ==
  IF caps = <<>> THEN <<>>
  ELSE (IF Head(caps) \in {HTTP_CAPABILITY, LOG_CAPABILITY}
          THEN <<[op |-> "remove_link", cap |-> Head(caps), binding |-> NoBinding]>>
        ELSE IF Head(caps) = FS_CAPABILITY
          THEN [k \in 1..(2 * Len(vols)) |->
                  [op |-> IF k % 2 = 1 THEN "stop_provider" ELSE "remove_link",
                   cap |-> FS_CAPABILITY, binding |-> vols[(k + 1) \div 2].name]]
        ELSE <<>>)
       \o DeclaredTeardown(Tail(caps), vols)

\* C10 amended: the Host calls of a stop follow the order in which the
\* handle's capability list (the module's declaration) names the
\* capabilities, and stop_actor is issued only after all of them.
C10_DeclaredOrder ==
  \A p \in Pods :
    InStop(p) =>
      IsPrefix(Shapes(trace[p]),
               DeclaredTeardown(handles[p].capabilities, volumes[p])
                 \o <<[op |-> "stop_actor", cap |-> "", binding |-> NoBinding]>>)

\* A stop of a handle listing logging, HTTP, blob storage unlinked them in
\* that order and stopped the actor.
C10_Witness ==
  \E p \in Pods :
    /\ pc[p] = "stopped" /\ result[p] = "ok"
    /\ handles[p].capabilities = <<LOG_CAPABILITY, HTTP_CAPABILITY, FS_CAPABILITY>>
    /\ Len(trace[p]) = 5
    /\ trace[p][1].cap = LOG_CAPABILITY /\ trace[p][2].cap = HTTP_CAPABILITY
    /\ trace[p][5].op = "stop_actor"

\* C11 as stated: the result of stop is that of its stop_actor step alone: a
\* stop that has returned reports Ok exactly when its stop_actor succeeded,
\* and it reports an error only when its stop_actor failed, never because an
\* unlink or a provider stop failed.
C11_ResultIsActorStop ==
  \A p \in Pods :
    pc[p] = "stopped" =>
      /\ result[p] = "ok" <=> \E c \in Range(trace[p]) : c.op = "stop_actor" /\ c.ok
      /\ result[p] = "err" => \E c \in Range(trace[p]) : c.op = "stop_actor" /\ ~c.ok

\* C13 as stated: a run that started its actor leaves its caller able to stop
\* it: once the caller's stop of that workload has returned Ok (the stop that
\* follows the run, whether the run returned a handle or an error), neither
\* the actor nor any link of the run is left in the Host.
C13_StopCleansEveryStartedRun ==
  \A p \in Pods :
    (/\ runs[p] > 0 /\ data[p] # InvalidData
     /\ pc[p] \in {"idle", "stopped"} /\ result[p] = "ok" /\ stops[p] <= 1) =>
      /\ public_key(data[p]) \notin hostActors
      /\ LinksOf(public_key(data[p])) = {}

\* C14 as stated: provisioning is idempotent per (capability, binding): no
\* run asks the Host to start a provider for a (capability, binding) whose
\* provider is already running in the Host.
C14_ProvisionedOnce ==
  [][\A p \in Pods :
       (Issued(p) /\ Latest(p).op = "start_provider") =>
         [cap |-> Latest(p).cap, binding |-> Latest(p).binding] \notin hostProviders]_vars

\* C15 as stated: no two handles of the handle table carry the same actor
\* identity, also when two workloads run the same module.
C15_UniqueIdentity ==
  \A p, q \in Pods :
    (p # q /\ handles[p] # NoHandle /\ handles[q] # NoHandle) =>
      handles[p].key # handles[q].key

\* The stop_actor step of the stop that returned succeeded.
ActorStopOk(p) == \E c \in Range(trace[p]) : c.op = "stop_actor" /\ c.ok

\* After a delete of a registered pod the waSCC table has no entry for it if
\* the stop succeeded, and the same handle under the same key if it failed.
WasccDeleteKeepsOnlyFailed ==
  \A p \in Pods :
    (wasccLast[p].op = "delete" /\ wasccLast[p].stop # "absent") =>
      /\ wasccResult[p] = "ok"
      /\ wasccLast[p].stop = "ok" => wasccHandles[p] = NoHandle
      /\ wasccLast[p].stop = "err" => wasccHandles[p] = wasccLast[p].handle

C17_DuplicateRefused ==
  [][\A p \in Pods :
       (wasccPc[p] = "add_insert" /\ wasccPc'[p] = "idle" /\ wasccHandles[p] # NoHandle) =>
         /\ wasccResult'[p] # "ok"
         /\ wasccHandles'[p] = wasccHandles[p]]_vars

\* C18: a stop (wasmCloud) or delete (waSCC) of a key with no entry in the
\* handle table returns Ok, issues no Host call and changes neither the Host
\* nor the table.
C18_AbsentStopIsNoop ==
  [][\A p \in Pods :
       /\ (/\ wasccLast'[p].op = "delete" /\ wasccHandles[p] = NoHandle
            /\ <<wasccLast[p], wasccResult[p]>> # <<wasccLast'[p], wasccResult'[p]>>) =>
             /\ wasccResult'[p] = "ok"
             /\ UNCHANGED <<wasccActors, wasccLinks, wasccHandles>>
       /\ (/\ pc[p] = "idle" /\ handles[p] = NoHandle /\ runs'[p] = runs[p]
            /\ <<result[p], trace[p]>> # <<result'[p], trace'[p]>>) =>
             /\ result'[p] = "ok" /\ trace'[p] = <<>>
             /\ UNCHANGED <<hostVars, hostLock, handles, tableLock, pc>>]_vars

\* Both providers were asked to stop a pod they have no handle of, the
\* wasmCloud one after a failed run that left its actor in the Host.
C18_Witness ==
  \E p \in Pods :
    /\ wasccLast[p].op = "delete" /\ wasccLast[p].stop = "absent" /\ wasccResult[p] = "ok"
    /\ wasccActors # {}
    /\ pc[p] = "idle" /\ handles[p] = NoHandle /\ result[p] = "ok" /\ runs[p] > 0
    /\ hostActors # {}

\* C19: logs for a key with no handle in the table returns PodNotFound and
\* changes nothing else, in either provider.
C19_LogsOfAbsentNotFound ==
  [][\A p \in Pods :
       /\ (logsPc[p] = "idle" /\ handles[p] = NoHandle /\ logsResult'[p] # logsResult[p]) =>
             /\ logsResult'[p] = "PodNotFound"
             /\ UNCHANGED <<podVars, wasccVars, logsPc, logFile, written, output_map, readers>>
       /\ (wasccHandles[p] = NoHandle /\ wasccLogsResult'[p] # wasccLogsResult[p]) =>
             /\ wasccLogsResult'[p] = "PodNotFound"
             /\ UNCHANGED <<podVars, logVars, wasccActors, wasccLinks, wasccHandles,
                            wasccPc, wasccRet, wasccResult, wasccLast>>]_vars

\* Both providers answered PodNotFound for a pod whose actor is in the Host.
C19_Witness ==
  \E p \in Pods :
    /\ logsResult[p] = "PodNotFound" /\ handles[p] = NoHandle /\ hostActors # {}
    /\ wasccLogsResult[p] = "PodNotFound" /\ wasccHandles[p] = NoHandle
    /\ wasccActors # {}

\* C20: every reader the factory hands out is a stream of its own from the
\* start of the log file: whenever one reads to EOF, what it has returned in
\* all is exactly what the logging provider has written to the file so far,
\* however many readers were made, and read, before it.
C20_ReaderReturnsAllWritten ==
  [][\A p \in Pods : \A i \in 1..Len(readers[p]) :
       readers'[p][i] # readers[p][i] =>
         /\ readers'[p][i].out = written'[p]
         /\ Len(readers'[p][i].out) = Len(logFile'[p])]_vars

\* Two readers of one log file each returned both records, the second made
\* after the first had read the first record.
C20_Witness ==
  \E p \in Pods :
    /\ Len(written[p]) = 2 /\ Len(readers[p]) = 2
    /\ readers[p][1].out = written[p]
    /\ readers[p][2].out = written[p]
    /\ written[p][1] # written[p][2]

\* A handle that is registered and that no stop has consumed: no stop of it
\* has returned Ok (a later stop of the same entry does not revive it).
Live(p) == handles[p] # NoHandle /\ ~stoppedOk[p]

InHostCall(p) ==
  pc[p] \in {"run_provision", "run_start_actor", "run_set_link",
             "stop_provider", "stop_fs_link", "stop_link", "stop_actor"}

\* C21: log streaming takes the handle table in shared mode: while a logs
\* request streams (handle.output), it is not the exclusive holder of the
\* table, so another logs request can hold the table at the same time.
C21_LogsSharesTable ==
  \A p \in Pods : logsPc[p] = "output" => tableLock # LogsTask(p)

\* C22: the table lock is never acquired by a task that holds the Host lock
\* (so a task holding both took the table first); a task holding the Host
\* lock is inside a Host call, never at a point that waits for the table;
\* and no state with a lock held is a dead end.
C22_TableBeforeHost ==
  /\ [][\A p \in Pods : (tableLock' = p /\ tableLock # p) => hostLock # p]_vars
  /\ [](\A p \in Pods : hostLock = p => InHostCall(p))
  /\ []((hostLock # NoTask \/ tableLock # NoTask) => ENABLED NextLocks)

\* A stop holds both locks while a run of the other pod waits for the Host
\* lock and a logs request for that pod has been served.
C22_Witness ==
  \E p, q \in Pods :
    /\ p # q
    /\ tableLock = p /\ hostLock = p /\ pc[p] = "stop_link"
    /\ pc[q] = "run_lock"
    /\ logsResult[q] = "PodNotFound"

\* C23: every Host call of a run or a stop (start_actor, stop_actor,
\* set_link, remove_link, provider start, provider stop) is issued by the
\* task that holds the Host lock, and no two tasks are inside a Host call at
\* the same time.
C23_HostCallsUnderLock ==
  /\ [][\A p \in Pods : Issued(p) => hostLock = p]_vars
  /\ [](\A p, q \in Pods : (InHostCall(p) /\ InHostCall(q)) => p = q)

\* A stop has issued a provider stop under the lock while the other pod's
\* run, which has to provision a volume, waits for the lock.
C23_Witness ==
  \E p, q \in Pods :
    /\ p # q
    /\ hostLock = p /\ pc[p] = "stop_fs_link"
    /\ Len(trace[p]) = 1 /\ trace[p][1].op = "stop_provider"
    /\ pc[q] = "run_lock"
    /\ FS_CAPABILITY \in Range(actor_capabilities(data[q])) /\ volumes[q] # <<>>

\* The step is the entry of a run of pod p (wasmcloud_run is called).
RunBegins(p) == runs'[p] = runs[p] + 1

\* C24: a run whose module bytes cannot be loaded fails with the load error
\* before any Host operation: it does not take the Host lock, issues no Host
\* call, and leaves providers, actors and links as they were.
C24_LoadErrorBeforeHost ==
  [][\A p \in Pods :
       (RunBegins(p) /\ data'[p] = InvalidData) =>
         /\ result'[p] = "err" /\ pc'[p] = "idle" /\ ret'[p] = NoHandle
         /\ trace'[p] = <<>>
         /\ hostLock' = hostLock /\ hostLock' # p
         /\ hostVars' = hostVars]_vars

\* A run of unloadable bytes has failed; it made no Host call and the Host
\* holds the startup providers only.
C24_Witness ==
  \E p \in Pods :
    /\ runs[p] = 1 /\ data[p] = InvalidData
    /\ result[p] = "err" /\ pc[p] = "idle" /\ trace[p] = <<>>
    /\ hostActors = {} /\ hostLinks = {} /\ hostProviders = StartupProviders

\* The step is a failure of pod p's run to provision a provider: from_instance
\* or start_native_capability returned an error.
ProvisionFails(p) ==
  /\ pc[p] = "run_provision"
  /\ \/ trace'[p] = trace[p]
     \/ Issued(p) /\ ~Latest(p).ok

\* C25: when the provisioning of a provider fails during a run, the run
\* returns the error at once and does none of the remaining steps: the Host
\* is as before the failing call, the Host lock is released, and the run has
\* issued no start_actor and no set_link; the failed call is the last Host
\* call of the run.
C25_ProvisionErrorAborts ==
  /\ [][\A p \in Pods :
          ProvisionFails(p) =>
            /\ result'[p] = "err" /\ pc'[p] = "idle" /\ ret'[p] = NoHandle
            /\ hostVars' = hostVars
            /\ hostLock' = NoTask
            /\ \A c \in Range(trace'[p]) : c.op = "start_provider"]_vars
  /\ [](\A p \in Pods : \A k \in 1..Len(trace[p]) :
          (trace[p][k].op = "start_provider" /\ ~trace[p][k].ok) =>
            /\ k = Len(trace[p])
            /\ pc[p] = "idle" /\ result[p] = "err")

\* A run with two volumes provisioned the first and failed on the second:
\* the actor is not started, no link is set, the first provider runs.
C25_Witness ==
  \E p \in Pods :
    /\ Len(volumes[p]) = 2 /\ Len(trace[p]) = 2
    /\ trace[p][1].op = "start_provider" /\ trace[p][1].ok
    /\ trace[p][2].op = "start_provider" /\ ~trace[p][2].ok
    /\ result[p] = "err" /\ pc[p] = "idle"
    /\ hostActors = {} /\ hostLinks = {}
    /\ [cap |-> FS_CAPABILITY, binding |-> volumes[p][1].name] \in hostProviders

\* No run has begun since the construction of the provider.
NoRunYet == \A p \in Pods : runs[p] = 0

\* A provider joins the Host only as the volume-scoped blob-storage provider
\* of a volume of a run whose actor declares blob storage.
StartedOnlyForVolume ==
  \A prov \in hostProviders' \ hostProviders :
    /\ prov.cap = FS_CAPABILITY
    /\ \E p \in Pods :
         /\ Issued(p) /\ Latest(p).op = "start_provider"
         /\ FS_CAPABILITY \in Range(actor_capabilities(data[p]))
         /\ \E k \in 1..Len(volumes[p]) : volumes[p][k].name = prov.binding

\* C26 as stated: before any run the Host holds the zero-binding providers of
\* HTTP server, logging and blob storage.
C26_AllThreeAtStartup ==
  NoRunYet =>
    \A c \in {HTTP_CAPABILITY, LOG_CAPABILITY, FS_CAPABILITY} :
      [cap |-> c, binding |-> NoBinding] \in hostProviders

\* C26 amended: before any run the Host holds exactly the zero-binding
\* providers of HTTP server and logging; it never holds a blob-storage
\* provider with no binding; a volume-scoped blob-storage provider is started
\* only when an actor that declares blob storage is run with that volume.
C26_HttpAndLoggingAtStartup ==
  /\ [](NoRunYet =>
          hostProviders = {[cap |-> HTTP_CAPABILITY, binding |-> NoBinding],
                           [cap |-> LOG_CAPABILITY, binding |-> NoBinding]})
  /\ []([cap |-> FS_CAPABILITY, binding |-> NoBinding] \notin hostProviders)
  /\ [][StartedOnlyForVolume]_vars

\* A run of an actor declaring blob storage with the volume "data" has
\* started that volume's provider beside the two startup providers.
C26_Witness ==
  \E p \in Pods :
    /\ runs[p] = 1 /\ pc[p] = "running"
    /\ FS_CAPABILITY \in Range(actor_capabilities(data[p]))
    /\ hostProviders = {[cap |-> HTTP_CAPABILITY, binding |-> NoBinding],
                        [cap |-> LOG_CAPABILITY, binding |-> NoBinding],
                        [cap |-> FS_CAPABILITY, binding |-> "data"]}

\* The step is the cancellation of pod p's run.
Cancels(p) == result'[p] = "cancelled" /\ result[p] # "cancelled"

\* C27: a run cancelled at an await point is not rolled back: the step leaves
\* the actors, links and providers of the Host as they are (an actor the run
\* started stays started, the links it set stay in place); the Host lock is
\* released if the run held it, is only ever held by a task inside a Host
\* call, and no state with a lock held is a dead end, so later runs and stops
\* proceed.
C27_CancelKeepsHostFreesLock ==
  /\ [][\A p \in Pods :
          Cancels(p) =>
            /\ hostVars' = hostVars
            /\ hostLock' # p
            /\ hostLock = p => hostLock' = NoTask]_vars
  /\ [](\A p \in Pods : hostLock = p => InHostCall(p))
  /\ []((hostLock # NoTask \/ tableLock # NoTask) => ENABLED NextCancel)

\* A run was cancelled after it had started its actor and set a link; both
\* are still in the Host, and the run of another module now holds the Host
\* lock and sets its links.
C27_Witness ==
  \E p, q \in Pods :
    /\ p # q
    /\ result[p] = "cancelled" /\ pc[p] = "idle" /\ handles[p] = NoHandle
    /\ hostLock = q /\ pc[q] = "run_set_link"
    /\ data[p] # data[q]
    /\ public_key(data[p]) \in hostActors
    /\ LinksOf(public_key(data[p])) # {}

\* The overlay key of a capability.
OverlayKey(cap) ==
  IF cap = LOG_CAPABILITY THEN LOG_PATH_KEY
  ELSE IF cap = HTTP_CAPABILITY THEN PORT_KEY
  ELSE FS_CONFIG_ROOTDIR
OverlayKeys == {LOG_PATH_KEY, PORT_KEY, FS_CONFIG_ROOTDIR}

\* The overlay value of a link set by a run of pod x.pod: the temp log file
\* path, the assigned port, the host path of the volume the link is bound to.
OverlayValue(x) ==
  IF x.link.cap = LOG_CAPABILITY THEN LogPath(x.pod)
  ELSE IF x.link.cap = HTTP_CAPABILITY THEN ToString(x.port_assigned)
  ELSE PathString(VolumeBinding(x.link.binding).host_path)

\* The environment e is the declared one overlaid with the one entry k = v.
IsOverlay(e, declared, k, v) ==
  /\ Cardinality(e) = Cardinality(Keys(e))
  /\ Keys(e) = Keys(declared) \cup {k}
  /\ Get(e, k) = v
  /\ \A j \in Keys(declared) \ {k} : Get(e, j) = Get(declared, j)

\* C28 as stated: the environment of each link is the declared environment
\* overlaid with the capability's one key, and no other capability's overlay
\* key appears in it.
C28_OverlayAndNoOtherKey ==
  \A x \in linkEnv :
    /\ IsOverlay(x.env, x.declared, OverlayKey(x.link.cap), OverlayValue(x))
    /\ \A k \in OverlayKeys \ {OverlayKey(x.link.cap)} : k \notin Keys(x.env)

\* C28 amended: the environment of each link is the declared environment
\* overlaid with the capability's one key (the overlay wins over a declared
\* entry of that key); the key of another capability's overlay is in it only
\* if it is declared, and then with its declared value.
C28_DeclaredOverlaidWithOneKey ==
  \A x \in linkEnv :
    /\ IsOverlay(x.env, x.declared, OverlayKey(x.link.cap), OverlayValue(x))
    /\ \A k \in OverlayKeys \ {OverlayKey(x.link.cap)} :
         k \in Keys(x.env) => k \in Keys(x.declared) /\ Get(x.env, k) = Get(x.declared, k)

\* A run with PORT and FOO declared has set its logging and its HTTP link:
\* the HTTP link has the assigned port for PORT, the logging link the
\* declared value.
C28_Witness ==
  \E x, y \in linkEnv :
    /\ x.pod = y.pod /\ x.declared = env[x.pod] /\ y.declared = env[x.pod]
    /\ Keys(env[x.pod]) = {"FOO", PORT_KEY}
    /\ x.link.cap = LOG_CAPABILITY /\ y.link.cap = HTTP_CAPABILITY
    /\ Get(x.env, PORT_KEY) = "bar" /\ Get(x.env, LOG_PATH_KEY) = LogPath(x.pod)
    /\ Get(y.env, PORT_KEY) = ToString(port[y.pod]) /\ Get(y.env, "FOO") = "bar"

\* The step writes a record to the log file f.
Writes(f) == logFile'[f] # logFile[f] /\ Len(written'[f]) = Len(written[f]) + 1

\* C29: the logging provider keeps separate output per actor: a log call of
\* actor A changes only the file of A's latest bind, the record it writes
\* there is A's, no other file changes, and no file is the output of two
\* actors.
C29_SeparateOutputPerActor ==
  /\ [][\A f \in Pods :
          Writes(f) =>
            /\ [module |-> Last(written'[f]).actor, file |-> f] \in lastBind
            /\ \A g \in Pods \ {f} : logFile'[g] = logFile[g]]_vars
  /\ [](\A a, b \in output_map :
          (a.file = b.file /\ a.file # NoFile) => a.module = b.module)

\* Two actors have logged, each into the file of its own pod's run, and both
\* files hold only their actor's records.
C29_Witness ==
  /\ logFile[1] # <<>> /\ logFile[2] # <<>>
  /\ \E a, b \in ActorKeys :
       /\ a # b
       /\ \A k \in 1..Len(logFile[1]) : logFile[1][k].actor = a
       /\ \A k \in 1..Len(logFile[2]) : logFile[2][k].actor = b
       /\ Len(logFile[1]) = 2

\* C30: can_schedule(pod) is true exactly when the pod has a node selector
\* whose beta.kubernetes.io/arch entry is wasm32-wascc: false with no node
\* selector, with no such entry, and with any other value.
C30_CanScheduleIffArchWascc ==
  \A p \in Pods :
    schedulable[p] # {} =>
      schedulable[p] =
        {\E i \in nodeSelector[p] :
           [key |-> "beta.kubernetes.io/arch", value |-> "wasm32-wascc"] \in i}

\* The provider took one pod for its arch entry and refused another that
\* has a node selector with another arch value.
C30_Witness ==
  /\ schedulable[1] = {TRUE}
  /\ schedulable[2] = {FALSE}
  /\ \E i \in nodeSelector[2] :
       [key |-> "beta.kubernetes.io/arch", value |-> "amd64"] \in i

\* The step in which a stop of p's handle returns Ok after an earlier stop
\* of the same handle returned an error.
RetriedStopReturnsOk(p) ==
  /\ StopReturns(p)
  /\ stops[p] >= 2
  /\ result[p] = "err" /\ result'[p] = "ok"

\* C31 as stated: when a stop of a handle failed partway and a later stop of
\* the same, still registered handle returns Ok, no blob-storage link of the
\* actor and no provider of a volume of the handle is left in the Host.
C31_RetriedStopRemovesAll ==
  [][\A p \in Pods :
       RetriedStopReturnsOk(p) =>
         \A v \in Range(ret[p].volumes) :
           /\ [actor |-> ret[p].key, cap |-> FS_CAPABILITY, binding |-> v.name]
                 \notin hostLinks'
           /\ [cap |-> FS_CAPABILITY, binding |-> v.name] \notin hostProviders']_vars

\* C32 as stated: a stop never stops the blob-storage provider of a volume
\* name to which another actor, still started in the Host, is linked.
C32_SharedVolumeProviderKept ==
  [][\A p \in Pods :
       (Issued(p) /\ Latest(p).op = "stop_provider" /\ Latest(p).ok) =>
         ~\E l \in hostLinks :
             /\ l.cap = FS_CAPABILITY /\ l.binding = Latest(p).binding
             /\ l.actor # Latest(p).actor
             /\ l.actor \in hostActors]_vars

\* The step in which p's run returns an error.
RunReturnsErr(p) ==
  /\ pc[p] \in {"run_provision", "run_start_actor", "run_set_link"}
  /\ pc'[p] = "idle" /\ result'[p] = "err"

\* C33 as stated: a run that returns an error leaves in the Host no
\* blob-storage provider that it started, whether it failed at a later
\* volume's provisioning, at start_actor or at set_link.
C33_FailedRunLeaksNoProvider ==
  [][\A p \in Pods :
       RunReturnsErr(p) =>
         \A c \in Range(trace'[p]) :
           (c.op = "start_provider" /\ c.ok) =>
             [cap |-> c.cap, binding |-> c.binding] \notin hostProviders']_vars

\* The await points of a run inside its block: from the first provisioning
\* to the last set_link.
InRunBlock(p) == pc[p] \in {"run_provision", "run_start_actor", "run_set_link"}

\* C34: a run holds the Host lock without interruption from its first
\* provisioning through start_actor to its last set_link: it holds the lock
\* at every await point of the block, the lock changes hands only when the
\* run leaves the block, and no other task issues a Host call while a run
\* is in the block.
C34_RunHoldsHostLock ==
  /\ [](\A p \in Pods : InRunBlock(p) => hostLock = p)
  /\ [][\A p \in Pods :
          (InRunBlock(p) /\ hostLock' # p) => ~InRunBlock(p)']_vars
  /\ [][\A p, q \in Pods :
          (InRunBlock(p) /\ p # q) => ~Issued(q)]_vars

\* A run has started its actor and set its first link and is about to set
\* the second, while the other pod's stop waits for the Host lock.
C34_Witness ==
  \E p, q \in Pods :
    /\ p # q
    /\ pc[p] = "run_set_link" /\ hostLock = p
    /\ \E c \in Range(trace[p]) : c.op = "start_actor" /\ c.ok
    /\ \E c \in Range(trace[p]) : c.op = "set_link" /\ c.ok
    /\ pc[q] = "stop_lock"

\* A stop of p's handle is in progress: ProviderState::stop has found the
\* handle and ActorHandle::stop has not returned.
StopInProgress(p) ==
  pc[p] \in {"stop_lock", "stop_provider", "stop_fs_link", "stop_link", "stop_actor"}

\* C35: a stop holds the write lock of the handle table for the whole
\* teardown, and logs takes the write lock too: no logs request is inside
\* handle.output while a stop of any workload is in progress, and no two
\* stops are in progress at once.
C35_StopExcludesLogsAndStops ==
  /\ \A p \in Pods : StopInProgress(p) => tableLock = p
  /\ \A q \in Pods : logsPc[q] = "output" => tableLock = LogsTask(q)
  /\ \A p, q \in Pods : (StopInProgress(p) /\ logsPc[q] = "output") => FALSE
  /\ \A p, q \in Pods : (StopInProgress(p) /\ StopInProgress(q)) => p = q

\* A stop is at a link removal while the other pod, registered and with a
\* logs request served earlier, has neither a stop nor a logs request going.
C35_Witness ==
  \E p, q \in Pods :
    /\ p # q
    /\ pc[p] = "stop_link" /\ tableLock = p
    /\ pc[q] = "running" /\ handles[q] # NoHandle
    /\ readers[q] # <<>> /\ logsPc[q] = "idle"

\* The step is a call of handle_call.
Called == lastCall'.n = lastCall.n + 1
\* The operations of the Host.
SystemOps == {OP_BIND_ACTOR, OP_REMOVE_ACTOR, OP_HEALTH_REQUEST}

\* C36: bind, remove-actor and health are accepted only from the actor
\* `system`: from any other actor they return the `Unknown operation` error
\* and leave the logger map (and the log files) unchanged; from `system`
\* they are not refused as unknown.
C36_SystemOpsOnlyFromSystem ==
  [][(Called /\ lastCall'.op \in SystemOps) =>
       IF lastCall'.actor = SYSTEM_ACTOR
         THEN lastCall'.result # "Unknown operation"
         ELSE /\ lastCall'.result = "Unknown operation"
              /\ output_map' = output_map
              /\ logFile' = logFile]_vars

\* An actor's bind was refused after the Host's bind for it was accepted.
C36_Witness ==
  /\ lastCall.op = OP_BIND_ACTOR /\ lastCall.actor # SYSTEM_ACTOR
  /\ lastCall.result = "Unknown operation"
  /\ \E e \in output_map : e.module = lastCall.actor

\* C37: remove-actor leaves the logger map unchanged; an entry of the map is
\* never removed and is added or redirected only by an accepted bind; so a
\* log call of an actor that was bound and whose link was then removed still
\* finds its logger, and with a known level it succeeds and writes the
\* actor's record to the file of its latest bind.
C37_RemoveActorKeepsLogger ==
  /\ [][(Called /\ lastCall'.op = OP_REMOVE_ACTOR) => output_map' = output_map]_vars
  /\ [][\A e \in output_map : \E x \in output_map' : x.module = e.module]_vars
  /\ [][{[module |-> e.module, file |-> e.file] : e \in output_map'}
          # {[module |-> e.module, file |-> e.file] : e \in output_map}
          => (Called /\ lastCall'.op = OP_BIND_ACTOR /\ lastCall'.result = "ok")]_vars
  /\ [][(/\ Called /\ lastCall'.op = OP_LOG
          /\ lastCall'.actor \in unbound
          /\ \E b \in lastBind : b.module = lastCall'.actor) =>
            /\ lastCall'.result \in {"ok", "Unknown log level"}
            /\ lastCall'.result = "ok" =>
                 \E b \in lastBind :
                   /\ b.module = lastCall'.actor
                   /\ Len(written'[b.file]) = Len(written[b.file]) + 1
                   /\ Last(written'[b.file]).actor = lastCall'.actor]_vars

\* An actor was bound, its link was removed, and its log call succeeded.
C37_Witness ==
  /\ lastCall.op = OP_LOG /\ lastCall.result = "ok"
  /\ lastCall.actor \in unbound
  /\ lastCall.n = 3
  /\ \E b \in lastBind : b.module = lastCall.actor /\ written[b.file] # <<>>
====
